---- MODULE Spec2Model ----
(***************************************************************************)
(* ai-video-enhancer: the client hooks useAIEnhancer and useFFmpeg, the    *)
(* serverless handlers /api/enhance and /api/status they talk to, and the  *)
(* VideoEnhancer / VideoProcessor components that drive them.              *)
(***************************************************************************)
EXTENDS Integers, Sequences, FiniteSets, TLC

(***************************************************************************)
(* Bounds of the model and constants of the program                        *)
(***************************************************************************)
\* saturation point of the counter of requests that reached Replicate
MaxUpstream == 2
\* widest input image of the model, in pixels
MaxWidth == 2

\* length of the loadingStrategies list of useFFmpeg
NumStrategies == 3

\* longest video of the model, in half seconds
MaxHalfSeconds == 5

\* saturation point of the counter of further calls of initModel
MaxInitCalls == 2

\* saturation point of the counter of codec loads that were started
MaxLoads == 2

\* length of cdnOptions of part_004
NumCdnOptions == 3

\* most frames extractFrames returns
MaxFrames == 2

\* useState(2) of enhancementScale
DefaultScale == 2

\* shortest client identifier AdSenseScript accepts
MinClientIdLength == 15

\* the size limit of VideoUploader, in bytes
MaxFileSize == 100 * 1024 * 1024

\* Uint8ClampedArray ceiling used by the contrast step of the fallback
MaxChannel == 255

Null == "null"

Min(a, b) == IF a < b THEN a ELSE b

(***************************************************************************)
(* Values                                                                  *)
(***************************************************************************)
\* the range of the scale slider of EnhancementSettings
Scales == 1..4

\* uniformly coloured frames: width x 1 pixels, every colour channel = px
Images == [width : 1..MaxWidth, height : {1}, px : {100, 250}]

PredictionStatuses == {"starting", "processing", "succeeded", "failed", "canceled"}
PredictionIds == {"p1", "p2"}
\* output of a prediction: absent, one URL, or a non-empty list of URLs
PredictionOutputs == {"none", "url", "list"}

NoBody == [id |-> "none", status |-> "none", output |-> "none", error |-> "none"]
ErrorBody(msg) == [NoBody EXCEPT !.error = msg]
PredictionBodies ==
  [id : PredictionIds, status : PredictionStatuses, output : PredictionOutputs, error : {"none"}]

\* what Replicate does with one request: the fetch throws, answers non-ok, or
\* answers ok with a prediction
ReplicateOutcomes ==
  {[kind |-> "throw", json |-> NoBody], [kind |-> "notok", json |-> NoBody]}
    \cup [kind : {"ok"}, json : PredictionBodies]

NoMsg == [type |-> "none"]
NoArgs == [image |-> [width |-> 0, height |-> 0, px |-> 0], scale |-> 0]
NoResult == [kind |-> "none"]

\* canvas.toDataURL('image/png'): a non-empty string that encodes the pixels
toDataURL(imageData) ==
  <<"data:image/png;base64", imageData.width, imageData.height, imageData.px>>

\* JavaScript truthiness of a string, strings being sequences here
Truthy(str) == Len(str) > 0

Response(code, body) ==
  [type |-> "resp", code |-> code, ok |-> (code >= 200 /\ code <= 299), body |-> body]

\* a client identifier, by what AdSenseScript looks at: how it starts and how
\* long it is; the unset variable is the empty one
NoClientId == [prefix |-> "", length |-> 0]
ClientIds ==
  {NoClientId}
    \cup [prefix : {"ca-pub-", "pub-"}, length : {MinClientIdLength - 1, MinClientIdLength}]

\* file.type, split at its slashes: 'video/mp4', 'video/webm', 'image/png',
\* and the empty type of a file the browser does not know
MimeTypes == {<<"video", "mp4">>, <<"video", "webm">>, <<"image", "png">>, <<>>}
\* files around the size limit
Files == [type : MimeTypes, size : {1, MaxFileSize - 1, MaxFileSize, MaxFileSize + 1}]
\* acceptedFiles of useDropzone with maxFiles: 1
DroppedFiles == {<<>>} \cup {<<f>> : f \in Files}

\* req.method
Methods == {"OPTIONS", "GET", "POST", "PUT"}
\* req.body.image: absent, or a data URL
ImageFields == {<<>>} \cup {toDataURL(i) : i \in Images}
\* req.query.id: absent, or the id of a prediction
IdFields == {""} \cup PredictionIds

\* req.query.file as the values of ?file= in the URL: none (undefined), one
\* (a string) or several (an array)
FileValues == {"", "core.js", "core.wasm", "ffmpeg-core.js", "core.js.map", "CORE.JS"}
FileQueries ==
  {<<>>} \cup {<<f>> : f \in FileValues}
    \cup {<<"core.js", "core.js">>, <<"core.js", "core.wasm">>}
\* response.status of unpkg
UnpkgCodes == {200, 404, 500}
NoProxyCall ==
  [query |-> <<>>, pc |-> "idle", requests |-> <<>>, upstream |-> "none", sent |-> <<>>]

\* the CDNs of cdnOptions of part_004, by position
CdnOptions == 1..NumCdnOptions

\* no request was sent to Replicate
NotAsked == [kind |-> "notAsked", json |-> NoBody]
NoCall ==
  [path |-> "none", method |-> "none", hasArg |-> FALSE, replicate |-> NotAsked,
   upstream |-> 0, sent |-> <<>>]

\* videoFile.url of the uploaded video
VideoUrl == "blob:video"

Strategies == 1..NumStrategies

VARIABLES
  vp,                \* VideoEnhancer: whether VideoProcessor is mounted
  processingStarted, \* VideoEnhancer: processingStarted
  enhancedVideoUrl,  \* VideoProcessor: enhancedVideoUrl
  processingProgress,\* VideoProcessor: processingProgress
  lwPc,              \* position of handleLightweightProcess
  enhancementScale,  \* VideoProcessor: enhancementScale
  isExtractingFrames,\* VideoProcessor: isExtractingFrames
  totalFrames,       \* VideoProcessor: totalFrames
  processedFrames,   \* VideoProcessor: processedFrames
  hpPc,              \* position of handleProcess
  frames,            \* handleProcess: frames, by the number in the frame's name
  hpI,               \* handleProcess: loop counter i
  hpScale,           \* handleProcess: the enhancementScale of its closure
  efCalls,           \* frames handleProcess has called enhanceFrame for, in order
  sab,               \* typeof SharedArrayBuffer !== 'undefined'
  ldPc,              \* position of load of useFFmpeg
  strat,             \* index of the strategy the loop of load is at
  loaded,            \* local variable loaded of load
  loadSt,            \* per strategy: state of the promise of strategy.load()
  timerSt,           \* per strategy: state of the timer of timeoutPromise
  raceWinner,        \* per strategy: what settled its Promise.race first
  ffmpegInst,        \* useFFmpeg: ffmpeg (an instance was created)
  isFFmpegLoaded,    \* useFFmpeg: isLoaded
  isFFmpegLoading,   \* useFFmpeg: isLoading
  ffmpegError,       \* useFFmpeg: error
  ffmpegProgress,    \* useFFmpeg: loadingProgress
  DEV,               \* import.meta.env.DEV
  apiToken,          \* process.env.VITE_REPLICATE_API_TOKEN is set
  aiModel,           \* useAIEnhancer: model
  isModelLoading,    \* useAIEnhancer: isLoading
  modelError,        \* useAIEnhancer: error
  downloadProgress,  \* useAIEnhancer: downloadProgress
  initPc,            \* position of initModel
  initI,             \* loop counter i of initModel
  efPc,              \* position of the enhanceFrame call
  efArgs,            \* (imageData, scale) of the enhanceFrame call
  efResult,          \* what the enhanceFrame promise settled with
  result,            \* local variable result of enhanceFrame
  img,               \* the Image element that loads the enhanced output
  net,               \* the request or response in flight between client and server
  lastResp,          \* the response the call received last
  reqSinceResp,      \* requests the call sent since it last received a response
  postCount,         \* POSTs to /api/enhance sent by the call
  replicateCalls,    \* requests the handlers sent to Replicate (saturating)
  apiCall,           \* the last direct invocation of a handler and what it did
  adClient,          \* AdSenseScript: clientId, as its effect read it last
  adEnabled,         \* AdSenseScript: adsenseEnabled, as its effect read it last
  adMounted,         \* AdSenseScript is mounted
  adCleanup,         \* its effect returned the cleanup function
  adHead,            \* script elements of googlesyndication.com in the document
  adScript,          \* the script element the effect created last: its loading
  adAttached,        \* the script element the effect created last: in the document
  adEvent,           \* what AdSenseScript or its script element did last
  upError,           \* VideoUploader: error
  lastDrop,          \* acceptedFiles of the last call of onDrop
  uploadCalls,       \* the files onVideoUpload was invoked with by onDrop
  proxyCall,         \* the last invocation of /api/proxy-ffmpeg and what it did
  cdnPc,             \* part_004: position of the effect and of load
  cdnI,              \* part_004: loop counter i of load
  cdnLastError,      \* part_004: local variable lastError of load
  cdnLoad,           \* part_004, per CDN: state of the promise of ffmpegInstance.load
  cdnTimer,          \* part_004, per CDN: state of the timer of timeoutPromise
  cdnInst,           \* part_004: ffmpeg (an instance was created)
  cdnIsLoaded,       \* part_004: isLoaded
  cdnIsLoading,      \* part_004: isLoading
  cdnError,          \* part_004: error
  cdnProgress,       \* part_004: loadingProgress
  cvPc,              \* part_002: position of the effect and of load
  cvComplete,        \* part_002: local variable loadingComplete of load
  cvGlobal,          \* part_002: state of the timer globalTimeout
  cvProxyLoad,       \* part_002: state of the promise of the load through the proxy
  cvCdnLoad,         \* part_002: state of the promise of the load from the CDN
  cvCdnTimer,        \* part_002: state of the 20 s timer raced against the CDN load
  cvInst,            \* part_002: ffmpeg (an instance was created)
  cvIsLoaded,        \* part_002: isLoaded
  cvIsLoading,       \* part_002: isLoading
  cvError,           \* part_002: error
  cvProgress,        \* part_002: loadingProgress
  compatibilityMode, \* part_002: compatibilityMode
  cvExtract,         \* part_002: position of the extractFrames call, or its outcome
  ffmpegTerminated,  \* terminate() was called on a codec instance of useFFmpeg
  loadStarts,        \* codec loads load of useFFmpeg has started (saturating)
  initCalls,         \* calls of initModel made beside the one of the mount (saturating)
  cxPc,              \* extractFramesWithCanvas: position of the call, or its outcome
  cxDuration,        \* extractFramesWithCanvas: duration, in half seconds
  cxTime,            \* extractFramesWithCanvas: currentTime, in seconds
  cxFrames,          \* extractFramesWithCanvas: frames, by number in the name and time
  cxSeeks            \* the times video.currentTime was set to, in order

enhancerVars ==
  <<aiModel, isModelLoading, modelError, downloadProgress, initPc, initI>>
callVars ==
  <<efPc, efArgs, efResult, result, img, net, lastResp, reqSinceResp, postCount,
    replicateCalls>>
envVars == <<DEV, apiToken>>
uiVars == <<vp, processingStarted, enhancedVideoUrl, processingProgress, lwPc>>
loadVars == <<sab, ldPc, strat, loaded, loadSt, timerSt, raceWinner>>
ffmpegVars == <<ffmpegInst, isFFmpegLoaded, isFFmpegLoading, ffmpegError, ffmpegProgress>>
loaderVars == <<loadVars, ffmpegVars>>
settingsVars == <<enhancementScale>>
runVars == <<isExtractingFrames, totalFrames, processedFrames, hpPc, frames, hpI, hpScale, efCalls>>
processVars == <<settingsVars, runVars>>

\* the page of the enhancer: components and hooks
appVars == <<uiVars, processVars, loaderVars, enhancerVars, callVars>>

apiVars == <<apiCall>>

adVars == <<adClient, adEnabled, adMounted, adCleanup, adHead, adScript, adAttached, adEvent>>

dropVars == <<upError, lastDrop, uploadCalls>>

proxyVars == <<proxyCall>>

cdnVars ==
  <<cdnPc, cdnI, cdnLastError, cdnLoad, cdnTimer, cdnInst, cdnIsLoaded, cdnIsLoading,
    cdnError, cdnProgress>>

canvasVars ==
  <<cvPc, cvComplete, cvGlobal, cvProxyLoad, cvCdnLoad, cvCdnTimer, cvInst, cvIsLoaded,
    cvIsLoading, cvError, cvProgress, compatibilityMode, cvExtract>>

extractVars == <<cxPc, cxDuration, cxTime, cxFrames, cxSeeks>>

\* the proxy handler and the two other versions of useFFmpeg
variantVars == <<proxyVars, cdnVars, canvasVars, extractVars>>

\* the units that run beside the enhancer page
sideVars == <<apiVars, adVars, dropVars, variantVars>>

\* what the page session did to the codec, outside the state of the hooks
instanceVars == <<ffmpegTerminated, loadStarts, initCalls>>

otherVars == <<sideVars, instanceVars>>

vars == <<envVars, appVars, otherVars>>

(***************************************************************************)
(* api/enhance and api/status: the serverless handlers                     *)
(***************************************************************************)
Reply(code, body, upstream) == [code |-> code, body |-> body, upstream |-> upstream]

\* /api/enhance without its check of the API token
EnhanceHandlerNoTokenCheck(method, image, token, rep) ==
  IF method = "OPTIONS" THEN Reply(200, NoBody, FALSE)
  ELSE IF method # "POST" THEN Reply(405, ErrorBody("Method not allowed"), FALSE)
  ELSE IF ~Truthy(image) THEN Reply(400, ErrorBody("Image data is required"), FALSE)
  ELSE IF rep.kind # "ok" THEN Reply(500, ErrorBody("Enhancement failed"), TRUE)
  ELSE Reply(200, rep.json, TRUE)

\* /api/enhance: the response for one request, and whether Replicate was asked
EnhanceHandler(method, image, token, rep) ==
  IF method = "OPTIONS" THEN Reply(200, NoBody, FALSE)
  ELSE IF method # "POST" THEN Reply(405, ErrorBody("Method not allowed"), FALSE)
  ELSE IF ~Truthy(image) THEN Reply(400, ErrorBody("Image data is required"), FALSE)
  ELSE IF ~token THEN Reply(500, ErrorBody("API token not configured"), FALSE)
  ELSE IF rep.kind # "ok" THEN Reply(500, ErrorBody("Enhancement failed"), TRUE)
  ELSE Reply(200, rep.json, TRUE)

\* /api/status that looks for the id before it looks at the method
StatusHandlerIdBeforeMethod(method, id, token, rep) ==
  IF method = "OPTIONS" THEN Reply(200, NoBody, FALSE)
  ELSE IF id = "" THEN Reply(400, ErrorBody("Prediction ID is required"), FALSE)
  ELSE IF method # "GET" THEN Reply(405, ErrorBody("Method not allowed"), FALSE)
  ELSE IF ~token THEN Reply(500, ErrorBody("API token not configured"), FALSE)
  ELSE IF rep.kind # "ok" THEN Reply(500, ErrorBody("Status check failed"), TRUE)
  ELSE Reply(200, rep.json, TRUE)

\* /api/status: the response for one request, and whether Replicate was asked
StatusHandler(method, id, token, rep) ==
  IF method = "OPTIONS" THEN Reply(200, NoBody, FALSE)
  ELSE IF method # "GET" THEN Reply(405, ErrorBody("Method not allowed"), FALSE)
  ELSE IF id = "" THEN Reply(400, ErrorBody("Prediction ID is required"), FALSE)
  ELSE IF ~token THEN Reply(500, ErrorBody("API token not configured"), FALSE)
  ELSE IF rep.kind # "ok" THEN Reply(500, ErrorBody("Status check failed"), TRUE)
  ELSE Reply(200, rep.json, TRUE)

CountUpstream(n, upstream) == IF upstream /\ n < MaxUpstream THEN n + 1 ELSE n

\* the handler runs on the request in flight and its response replaces it
ServeEnhance ==
  /\ net.type = "req" /\ net.path = "/api/enhance"
  /\ \E rep \in ReplicateOutcomes :
       LET r == EnhanceHandler(net.method, net.image, apiToken, rep) IN
         /\ net' = Response(r.code, r.body)
         /\ replicateCalls' = CountUpstream(replicateCalls, r.upstream)
  /\ UNCHANGED <<envVars, otherVars, processVars, uiVars, loaderVars, enhancerVars>>
  /\ UNCHANGED <<efPc, efArgs, efResult, result, img, lastResp, reqSinceResp, postCount>>

ServeStatus ==
  /\ net.type = "req" /\ net.path = "/api/status"
  /\ \E rep \in ReplicateOutcomes :
       LET r == StatusHandler(net.method, net.id, apiToken, rep) IN
         /\ net' = Response(r.code, r.body)
         /\ replicateCalls' = CountUpstream(replicateCalls, r.upstream)
  /\ UNCHANGED <<envVars, otherVars, processVars, uiVars, loaderVars, enhancerVars>>
  /\ UNCHANGED <<efPc, efArgs, efResult, result, img, lastResp, reqSinceResp, postCount>>

\* the browser's fetch rejects: the request never yields a response
FetchFails ==
  /\ net.type = "req"
  /\ net' = [type |-> "neterr"]
  /\ UNCHANGED <<envVars, otherVars, processVars, uiVars, loaderVars, enhancerVars>>
  /\ UNCHANGED <<efPc, efArgs, efResult, result, img, lastResp, reqSinceResp, postCount,
                 replicateCalls>>

\* a handler invoked by any client: what it was sent, what it sent to
\* Replicate and got from it, and the responses it sent
Invocation(path, method, hasArg, rep, r) ==
  [path |-> path, method |-> method, hasArg |-> hasArg,
   replicate |-> IF r.upstream THEN rep ELSE NotAsked,
   upstream |-> IF r.upstream THEN 1 ELSE 0,
   sent |-> <<Response(r.code, r.body)>>]

\* one invocation of /api/enhance, with any method and with or without an image
InvokeEnhance ==
  /\ \E method \in Methods, image \in ImageFields, rep \in ReplicateOutcomes :
       apiCall' = Invocation("/api/enhance", method, Truthy(image), rep,
                             EnhanceHandler(method, image, apiToken, rep))
  /\ UNCHANGED <<envVars, appVars, adVars, dropVars, variantVars, instanceVars>>

\* one invocation of /api/status, with any method and with or without an id
InvokeStatus ==
  /\ \E method \in Methods, id \in IdFields, rep \in ReplicateOutcomes :
       apiCall' = Invocation("/api/status", method, id # "", rep,
                             StatusHandler(method, id, apiToken, rep))
  /\ UNCHANGED <<envVars, appVars, adVars, dropVars, variantVars, instanceVars>>

(***************************************************************************)
(* /api/proxy-ffmpeg (part_009, second handler)                            *)
(***************************************************************************)
\* a check that lets every non-empty file parameter through
ProxyFileAllowedAnyValue(query) == Len(query) = 1 => Truthy(query[1])

\* !(!file || !['core.js', 'core.wasm'].includes(file)): an array is truthy
\* and is not included
ProxyFileAllowed(query) == Len(query) = 1 /\ query[1] \in {"core.js", "core.wasm"}

\* fileName: file === 'core.js' ? 'ffmpeg-core.js' : 'ffmpeg-core.wasm'
ProxyFileName(query) ==
  IF Len(query) = 1 /\ query[1] = "core.js" THEN "ffmpeg-core.js" ELSE "ffmpeg-core.wasm"

ProxyBaseUrl == "https://unpkg.com/@ffmpeg/core@0.12.4/dist/umd"

\* `${baseUrl}/${fileName}`
ProxyUrl(query) == ProxyBaseUrl \o "/" \o ProxyFileName(query)

\* contentType
ProxyContentType(query) ==
  IF Len(query) = 1 /\ query[1] = "core.js" THEN "application/javascript" ELSE "application/wasm"

ProxyReply(code, type) == [code |-> code, type |-> type]

\* the catch block: res.status(500).json(...)
ProxyCatch(call, upstream) ==
  [call EXCEPT !.pc = "done", !.upstream = upstream,
               !.sent = Append(@, ProxyReply(500, "application/json"))]

\* an invocation, up to its 400 response or its fetch of the file
ProxyInvoke ==
  /\ proxyCall.pc \in {"idle", "done"}
  /\ \E query \in FileQueries :
       proxyCall' =
         IF ~ProxyFileAllowed(query)
           THEN [NoProxyCall EXCEPT !.query = query, !.pc = "done",
                                    !.sent = <<ProxyReply(400, "application/json")>>]
           ELSE [NoProxyCall EXCEPT !.query = query, !.pc = "fetching",
                                    !.requests = <<ProxyUrl(query)>>]
  /\ UNCHANGED <<envVars, appVars, apiVars, adVars, dropVars, cdnVars, canvasVars, extractVars, instanceVars>>

\* unpkg answers: a response that is not ok is thrown to the catch block
ProxyFetchResolves ==
  /\ proxyCall.pc = "fetching"
  /\ \E code \in UnpkgCodes :
       proxyCall' =
         IF code >= 200 /\ code <= 299
           THEN [proxyCall EXCEPT !.pc = "reading", !.upstream = "ok"]
           ELSE ProxyCatch(proxyCall, "notok")
  /\ UNCHANGED <<envVars, appVars, apiVars, adVars, dropVars, cdnVars, canvasVars, extractVars, instanceVars>>

\* fetch rejects: unpkg cannot be reached
ProxyFetchRejects ==
  /\ proxyCall.pc = "fetching"
  /\ proxyCall' = ProxyCatch(proxyCall, "neterr")
  /\ UNCHANGED <<envVars, appVars, apiVars, adVars, dropVars, cdnVars, canvasVars, extractVars, instanceVars>>

\* response.arrayBuffer() resolves: the file is sent with its content type
ProxyBodyResolves ==
  /\ proxyCall.pc = "reading"
  /\ proxyCall' =
       [proxyCall EXCEPT !.pc = "done",
          !.sent = Append(@, ProxyReply(200, ProxyContentType(proxyCall.query)))]
  /\ UNCHANGED <<envVars, appVars, apiVars, adVars, dropVars, cdnVars, canvasVars, extractVars, instanceVars>>

\* response.arrayBuffer() rejects: the connection broke during the download
ProxyBodyRejects ==
  /\ proxyCall.pc = "reading"
  /\ proxyCall' = ProxyCatch(proxyCall, "bodyerr")
  /\ UNCHANGED <<envVars, appVars, apiVars, adVars, dropVars, cdnVars, canvasVars, extractVars, instanceVars>>

(***************************************************************************)
(* useFFmpeg of part_004: three CDNs, each with a 30 s timer               *)
(***************************************************************************)
\* setLoadingProgress(20 + (i * 25))
CdnProgressAt(i) == 20 + (i * 25)

\* the start of the try block of the loop for CDN i: the first toBlobURL is
\* called and awaited
CdnAttempt(i) ==
  /\ cdnI' = i
  /\ cdnProgress' = CdnProgressAt(i)
  /\ cdnPc' = "coreJs"

\* the catch block of the loop, up to its 1 s delay
CdnCatch(err) ==
  /\ cdnLastError' = err
  /\ cdnProgress' = CdnProgressAt(cdnI) + 10
  /\ cdnPc' = "backoff"

\* the race of CDN k is still awaited and neither of its promises has settled
CdnRacing(k) ==
  /\ cdnPc = "race"
  /\ cdnI + 1 = k
  /\ cdnLoad[k] = "pending"
  /\ cdnTimer[k] = "armed"

\* the effect: load() at once in development, after 1 s otherwise
CdnMount ==
  /\ cdnPc = "idle"
  /\ IF DEV
       THEN /\ cdnError' = "Development mode - FFmpeg disabled for faster loading"
            /\ cdnPc' = "done"
       ELSE /\ cdnPc' = "delay"
            /\ UNCHANGED cdnError
  /\ UNCHANGED <<cdnI, cdnLastError, cdnLoad, cdnTimer, cdnInst, cdnIsLoaded,
                 cdnIsLoading, cdnProgress>>
  /\ UNCHANGED <<envVars, appVars, apiVars, adVars, dropVars, proxyVars, canvasVars, extractVars, instanceVars>>

\* load() in production, up to the first await of the first CDN
CdnDelayTimer ==
  /\ cdnPc = "delay"
  /\ cdnIsLoading' = TRUE
  /\ cdnError' = Null
  /\ cdnInst' = TRUE
  /\ CdnAttempt(0)
  /\ UNCHANGED <<cdnLastError, cdnLoad, cdnTimer, cdnIsLoaded>>
  /\ UNCHANGED <<envVars, appVars, apiVars, adVars, dropVars, proxyVars, canvasVars, extractVars, instanceVars>>

\* toBlobURL of ffmpeg-core.js resolves: toBlobURL of ffmpeg-core.wasm is
\* called and awaited
CdnCoreJsFetched ==
  /\ cdnPc = "coreJs"
  /\ cdnPc' = "wasm"
  /\ UNCHANGED <<cdnI, cdnLastError, cdnLoad, cdnTimer, cdnInst, cdnIsLoaded,
                 cdnIsLoading, cdnError, cdnProgress>>
  /\ UNCHANGED <<envVars, appVars, apiVars, adVars, dropVars, proxyVars, canvasVars, extractVars, instanceVars>>

\* toBlobURL of ffmpeg-core.wasm resolves: ffmpegInstance.load is called, the
\* 30 s timer is set and the race of the two is awaited
CdnWasmFetched ==
  /\ cdnPc = "wasm"
  /\ cdnLoad' = [cdnLoad EXCEPT ![cdnI + 1] = "pending"]
  /\ cdnTimer' = [cdnTimer EXCEPT ![cdnI + 1] = "armed"]
  /\ cdnPc' = "race"
  /\ UNCHANGED <<cdnI, cdnLastError, cdnInst, cdnIsLoaded, cdnIsLoading, cdnError,
                 cdnProgress>>
  /\ UNCHANGED <<envVars, appVars, apiVars, adVars, dropVars, proxyVars, canvasVars, extractVars, instanceVars>>

\* one of the two toBlobURL calls rejects
CdnDownloadFails ==
  /\ cdnPc \in {"coreJs", "wasm"}
  /\ CdnCatch("Failed to fetch")
  /\ UNCHANGED <<cdnI, cdnLoad, cdnTimer, cdnInst, cdnIsLoaded, cdnIsLoading, cdnError>>
  /\ UNCHANGED <<envVars, appVars, apiVars, adVars, dropVars, proxyVars, canvasVars, extractVars, instanceVars>>

\* ffmpegInstance.load of CDN k resolves; load() goes on if it still awaits
\* the race of this CDN
CdnLoadResolves(k) ==
  /\ cdnLoad[k] = "pending"
  /\ cdnLoad' = [cdnLoad EXCEPT ![k] = "resolved"]
  /\ IF CdnRacing(k)
       THEN /\ cdnProgress' = 100
            /\ cdnIsLoaded' = TRUE
            /\ cdnIsLoading' = FALSE
            /\ cdnPc' = "done"
            /\ UNCHANGED cdnLastError
       ELSE UNCHANGED <<cdnProgress, cdnIsLoaded, cdnIsLoading, cdnPc, cdnLastError>>
  /\ UNCHANGED <<cdnI, cdnTimer, cdnInst, cdnError>>
  /\ UNCHANGED <<envVars, appVars, apiVars, adVars, dropVars, proxyVars, canvasVars, extractVars, instanceVars>>

\* ffmpegInstance.load of CDN k rejects
CdnLoadRejects(k) ==
  /\ cdnLoad[k] = "pending"
  /\ cdnLoad' = [cdnLoad EXCEPT ![k] = "rejected"]
  /\ IF CdnRacing(k)
       THEN CdnCatch("load failed")
       ELSE UNCHANGED <<cdnLastError, cdnProgress, cdnPc>>
  /\ UNCHANGED <<cdnI, cdnTimer, cdnInst, cdnIsLoaded, cdnIsLoading, cdnError>>
  /\ UNCHANGED <<envVars, appVars, apiVars, adVars, dropVars, proxyVars, canvasVars, extractVars, instanceVars>>

\* the 30 s timer of CDN k fires and rejects timeoutPromise
CdnTimeoutFires(k) ==
  /\ cdnTimer[k] = "armed"
  /\ cdnTimer' = [cdnTimer EXCEPT ![k] = "fired"]
  /\ IF CdnRacing(k)
       THEN CdnCatch("Loading timeout (30s)")
       ELSE UNCHANGED <<cdnLastError, cdnProgress, cdnPc>>
  /\ UNCHANGED <<cdnI, cdnLoad, cdnInst, cdnIsLoaded, cdnIsLoading, cdnError>>
  /\ UNCHANGED <<envVars, appVars, apiVars, adVars, dropVars, proxyVars, canvasVars, extractVars, instanceVars>>

\* the 1 s delay of the catch block ends: the next CDN, or after the last one
\* throw lastError, the outer catch and finally
CdnBackoffTimer ==
  /\ cdnPc = "backoff"
  /\ IF cdnI + 1 < NumCdnOptions
       THEN /\ CdnAttempt(cdnI + 1)
            /\ UNCHANGED <<cdnError, cdnIsLoading>>
       ELSE /\ cdnError' = "Failed to load video processor: " \o cdnLastError
            /\ cdnIsLoading' = FALSE
            /\ cdnPc' = "done"
            /\ UNCHANGED <<cdnI, cdnProgress>>
  /\ UNCHANGED <<cdnLastError, cdnLoad, cdnTimer, cdnInst, cdnIsLoaded>>
  /\ UNCHANGED <<envVars, appVars, apiVars, adVars, dropVars, proxyVars, canvasVars, extractVars, instanceVars>>

(***************************************************************************)
(* useFFmpeg of part_002: proxy, then CDN, with a 60 s switch to canvas    *)
(***************************************************************************)
\* clearTimeout(globalTimeout)
ClearedTimer(timer) == IF timer = "armed" THEN "cleared" ELSE timer

\* the try block of load(), up to the await of the load through the proxy
CvBegin ==
  /\ cvIsLoading' = TRUE
  /\ cvError' = Null
  /\ cvInst' = TRUE
  /\ cvComplete' = FALSE
  /\ cvGlobal' = "armed"
  /\ cvProgress' = 30
  /\ cvProxyLoad' = "pending"
  /\ cvPc' = "proxy"
  /\ UNCHANGED <<cvCdnLoad, cvCdnTimer, cvIsLoaded, compatibilityMode>>

\* the SharedArrayBuffer check failed a second time: canvas mode, return
CvNoSab ==
  /\ compatibilityMode' = "canvas"
  /\ cvError' = "Using Canvas fallback - SharedArrayBuffer not available"
  /\ cvIsLoading' = FALSE
  /\ cvPc' = "done"
  /\ UNCHANGED <<cvComplete, cvGlobal, cvProxyLoad, cvCdnLoad, cvCdnTimer, cvInst,
                 cvIsLoaded, cvProgress>>

\* what follows a load that resolved, through the proxy or from the CDN,
\* and the finally block
CvLoaded ==
  /\ cvGlobal' = ClearedTimer(cvGlobal)
  /\ cvComplete' = TRUE
  /\ cvProgress' = 100
  /\ cvIsLoaded' = TRUE
  /\ compatibilityMode' = "ffmpeg"
  /\ cvIsLoading' = FALSE
  /\ cvPc' = "done"
  /\ UNCHANGED <<cvError, cvInst>>

\* the catch block of the CDN fallback and the finally block
CvCdnFailed ==
  /\ IF ~cvComplete
       THEN /\ cvGlobal' = ClearedTimer(cvGlobal)
            /\ cvComplete' = TRUE
            /\ compatibilityMode' = "canvas"
            /\ cvError' =
                 "Using Canvas fallback - FFmpeg.wasm incompatible with cross-origin isolation"
            /\ cvProgress' = 100
       ELSE UNCHANGED <<cvGlobal, cvComplete, compatibilityMode, cvError, cvProgress>>
  /\ cvIsLoading' = FALSE
  /\ cvPc' = "done"
  /\ UNCHANGED <<cvInst, cvIsLoaded>>

\* the effect: load() at once in development, after 2 s otherwise
CvMount ==
  /\ cvPc = "idle"
  /\ IF DEV
       THEN /\ compatibilityMode' = "canvas"
            /\ cvError' = "Development mode - Using Canvas-based frame extraction"
            /\ cvIsLoading' = FALSE
            /\ cvPc' = "done"
       ELSE /\ cvPc' = "delay"
            /\ UNCHANGED <<compatibilityMode, cvError, cvIsLoading>>
  /\ UNCHANGED <<cvComplete, cvGlobal, cvProxyLoad, cvCdnLoad, cvCdnTimer, cvInst,
                 cvIsLoaded, cvProgress>>
  /\ UNCHANGED <<envVars, appVars, apiVars, adVars, dropVars, proxyVars, cdnVars, cvExtract, extractVars, instanceVars>>

\* load() in production: the first SharedArrayBuffer check
CvDelayTimer ==
  /\ cvPc = "delay"
  /\ IF sab
       THEN CvBegin
       ELSE /\ cvPc' = "sabWait"
            /\ UNCHANGED <<cvComplete, cvGlobal, cvProxyLoad, cvCdnLoad, cvCdnTimer,
                           cvInst, cvIsLoaded, cvIsLoading, cvError, cvProgress,
                           compatibilityMode>>
  /\ UNCHANGED <<envVars, appVars, apiVars, adVars, dropVars, proxyVars, cdnVars, cvExtract, extractVars, instanceVars>>

\* the service worker makes the page cross-origin isolated during the wait
CvSabEnable ==
  /\ cvPc = "sabWait" /\ ~sab
  /\ sab' = TRUE
  /\ UNCHANGED <<ldPc, strat, loaded, loadSt, timerSt, raceWinner, ffmpegVars>>
  /\ UNCHANGED <<envVars, otherVars, processVars, uiVars, enhancerVars, callVars>>

\* the 3 s wait ends: the second SharedArrayBuffer check
CvSabTimer ==
  /\ cvPc = "sabWait"
  /\ IF sab THEN CvBegin ELSE CvNoSab
  /\ UNCHANGED <<envVars, appVars, apiVars, adVars, dropVars, proxyVars, cdnVars, cvExtract, extractVars, instanceVars>>

\* the 60 s timer globalTimeout fires
CvGlobalFires ==
  /\ cvGlobal = "armed"
  /\ cvGlobal' = "fired"
  /\ IF ~cvComplete
       THEN /\ compatibilityMode' = "canvas"
            /\ cvError' = "FFmpeg.wasm timeout - Using Canvas fallback"
            /\ cvProgress' = 100
            /\ cvIsLoading' = FALSE
            /\ cvComplete' = TRUE
       ELSE UNCHANGED <<compatibilityMode, cvError, cvProgress, cvIsLoading, cvComplete>>
  /\ UNCHANGED <<cvPc, cvProxyLoad, cvCdnLoad, cvCdnTimer, cvInst, cvIsLoaded>>
  /\ UNCHANGED <<envVars, appVars, apiVars, adVars, dropVars, proxyVars, cdnVars, cvExtract, extractVars, instanceVars>>

\* the load through /api/proxy-ffmpeg resolves
CvProxyResolves ==
  /\ cvPc = "proxy"
  /\ cvProxyLoad' = "resolved"
  /\ CvLoaded
  /\ UNCHANGED <<cvCdnLoad, cvCdnTimer>>
  /\ UNCHANGED <<envVars, appVars, apiVars, adVars, dropVars, proxyVars, cdnVars, cvExtract, extractVars, instanceVars>>

\* the load through the proxy rejects: the load from unpkg is raced against
\* a 20 s timer
CvProxyRejects ==
  /\ cvPc = "proxy"
  /\ cvProxyLoad' = "rejected"
  /\ cvProgress' = 60
  /\ cvCdnLoad' = "pending"
  /\ cvCdnTimer' = "armed"
  /\ cvPc' = "cdn"
  /\ UNCHANGED <<cvComplete, cvGlobal, cvInst, cvIsLoaded, cvIsLoading, cvError,
                 compatibilityMode>>
  /\ UNCHANGED <<envVars, appVars, apiVars, adVars, dropVars, proxyVars, cdnVars, cvExtract, extractVars, instanceVars>>

\* the load from unpkg resolves; load() goes on if the race is not settled
CvCdnResolves ==
  /\ cvCdnLoad = "pending"
  /\ cvCdnLoad' = "resolved"
  /\ IF cvPc = "cdn"
       THEN CvLoaded
       ELSE UNCHANGED <<cvPc, cvComplete, cvGlobal, cvInst, cvIsLoaded, cvIsLoading,
                        cvError, cvProgress, compatibilityMode>>
  /\ UNCHANGED <<cvProxyLoad, cvCdnTimer>>
  /\ UNCHANGED <<envVars, appVars, apiVars, adVars, dropVars, proxyVars, cdnVars, cvExtract, extractVars, instanceVars>>

\* the load from unpkg rejects
CvCdnRejects ==
  /\ cvCdnLoad = "pending"
  /\ cvCdnLoad' = "rejected"
  /\ IF cvPc = "cdn"
       THEN CvCdnFailed
       ELSE UNCHANGED <<cvPc, cvComplete, cvGlobal, cvInst, cvIsLoaded, cvIsLoading,
                        cvError, cvProgress, compatibilityMode>>
  /\ UNCHANGED <<cvProxyLoad, cvCdnTimer>>
  /\ UNCHANGED <<envVars, appVars, apiVars, adVars, dropVars, proxyVars, cdnVars, cvExtract, extractVars, instanceVars>>

\* the 20 s timer fires
CvCdnTimeout ==
  /\ cvCdnTimer = "armed"
  /\ cvCdnTimer' = "fired"
  /\ IF cvPc = "cdn"
       THEN CvCdnFailed
       ELSE UNCHANGED <<cvPc, cvComplete, cvGlobal, cvInst, cvIsLoaded, cvIsLoading,
                        cvError, cvProgress, compatibilityMode>>
  /\ UNCHANGED <<cvProxyLoad, cvCdnLoad>>
  /\ UNCHANGED <<envVars, appVars, apiVars, adVars, dropVars, proxyVars, cdnVars, cvExtract, extractVars, instanceVars>>

\* extractFrames is called, no call of it being under way: by canvas in
\* canvas mode, else by the codec if it is ready, else it throws
CvExtractFrames ==
  /\ cvPc # "idle"
  /\ cvExtract \in {"idle", "frames", "threw"}
  /\ cvExtract' =
       IF compatibilityMode = "canvas" THEN "canvas"
       ELSE IF ~cvInst \/ ~cvIsLoaded THEN "threw"
       ELSE "ffmpeg"
  /\ UNCHANGED <<cvPc, cvComplete, cvGlobal, cvProxyLoad, cvCdnLoad, cvCdnTimer, cvInst,
                 cvIsLoaded, cvIsLoading, cvError, cvProgress, compatibilityMode>>
  /\ UNCHANGED <<envVars, appVars, apiVars, adVars, dropVars, proxyVars, cdnVars, extractVars, instanceVars>>

\* the codec or the canvas has extracted the frames
CvExtracted ==
  /\ cvExtract \in {"ffmpeg", "canvas"}
  /\ cvExtract' = "frames"
  /\ UNCHANGED <<cvPc, cvComplete, cvGlobal, cvProxyLoad, cvCdnLoad, cvCdnTimer, cvInst,
                 cvIsLoaded, cvIsLoading, cvError, cvProgress, compatibilityMode>>
  /\ UNCHANGED <<envVars, appVars, apiVars, adVars, dropVars, proxyVars, cdnVars, extractVars, instanceVars>>

\* the codec fails: the catch block switches to canvas mode and extracts by
\* canvas
CvExtractFallsBack ==
  /\ cvExtract = "ffmpeg"
  /\ compatibilityMode' = "canvas"
  /\ cvExtract' = "canvas"
  /\ UNCHANGED <<cvPc, cvComplete, cvGlobal, cvProxyLoad, cvCdnLoad, cvCdnTimer, cvInst,
                 cvIsLoaded, cvIsLoading, cvError, cvProgress>>
  /\ UNCHANGED <<envVars, appVars, apiVars, adVars, dropVars, proxyVars, cdnVars, extractVars, instanceVars>>

\* the video element fails to load the file: extractFramesWithCanvas rejects
CvCanvasFails ==
  /\ cvExtract = "canvas"
  /\ cvExtract' = "threw"
  /\ UNCHANGED <<cvPc, cvComplete, cvGlobal, cvProxyLoad, cvCdnLoad, cvCdnTimer, cvInst,
                 cvIsLoaded, cvIsLoading, cvError, cvProgress, compatibilityMode>>
  /\ UNCHANGED <<envVars, appVars, apiVars, adVars, dropVars, proxyVars, cdnVars, extractVars, instanceVars>>

(***************************************************************************)
(* useFFmpeg of part_002: extractFramesWithCanvas                          *)
(***************************************************************************)
\* const frameInterval = 1: seconds between two frames
FrameInterval == 1

\* video.duration, in half seconds
Durations == 0..MaxHalfSeconds

\* a test that lets the time of the end of the video through
CanvasDoneAfterEnd(currentTime, duration) == 2 * currentTime > duration

\* currentTime >= duration, the duration being in half seconds
CanvasDone(currentTime, duration) == 2 * currentTime >= duration

\* the number in `frame_${String(frames.length + 1).padStart(4, '0')}.jpg`
FrameNumber(captured) == Len(captured) + 1

\* extractFrame() with currentTime = t: resolve, or seek to t and wait for
\* seeked
ExtractFrame(t) ==
  /\ cxTime' = t
  /\ IF CanvasDone(t, cxDuration')
       THEN cxPc' = "resolved" /\ UNCHANGED cxSeeks
       ELSE cxPc' = "seeking" /\ cxSeeks' = Append(cxSeeks, t)

\* extractFramesWithCanvas is called: without a 2D context it rejects, else it
\* sets the source of the video element
CanvasCall ==
  /\ cxPc \in {"idle", "resolved", "rejected"}
  /\ \E ctx \in BOOLEAN : cxPc' = IF ctx THEN "loading" ELSE "rejected"
  /\ cxDuration' = 0
  /\ cxTime' = 0
  /\ cxFrames' = <<>>
  /\ cxSeeks' = <<>>
  /\ UNCHANGED <<envVars, appVars, apiVars, adVars, dropVars, proxyVars, cdnVars, canvasVars, instanceVars>>

\* video.onloadedmetadata: the first extractFrame()
CanvasLoadedMetadata ==
  /\ cxPc = "loading"
  /\ \E duration \in Durations : cxDuration' = duration
  /\ ExtractFrame(0)
  /\ UNCHANGED cxFrames
  /\ UNCHANGED <<envVars, appVars, apiVars, adVars, dropVars, proxyVars, cdnVars, canvasVars, instanceVars>>

\* video.onerror: the file does not load
CanvasVideoError ==
  /\ cxPc = "loading"
  /\ cxPc' = "rejected"
  /\ UNCHANGED <<cxDuration, cxTime, cxFrames, cxSeeks>>
  /\ UNCHANGED <<envVars, appVars, apiVars, adVars, dropVars, proxyVars, cdnVars, canvasVars, instanceVars>>

\* video.onseeked: the frame is drawn and canvas.toBlob is called
CanvasSeeked ==
  /\ cxPc = "seeking"
  /\ cxPc' = "toBlob"
  /\ UNCHANGED <<cxDuration, cxTime, cxFrames, cxSeeks>>
  /\ UNCHANGED <<envVars, appVars, apiVars, adVars, dropVars, proxyVars, cdnVars, canvasVars, instanceVars>>

\* the callback of toBlob: with a blob a FileReader reads it; without one the
\* next extractFrame()
CanvasBlob ==
  /\ cxPc = "toBlob"
  /\ \E blob \in BOOLEAN :
       IF blob
         THEN cxPc' = "reading" /\ UNCHANGED <<cxDuration, cxTime, cxSeeks>>
         ELSE UNCHANGED cxDuration /\ ExtractFrame(cxTime + FrameInterval)
  /\ UNCHANGED cxFrames
  /\ UNCHANGED <<envVars, appVars, apiVars, adVars, dropVars, proxyVars, cdnVars, canvasVars, instanceVars>>

\* reader.onload: the frame is pushed, then the next extractFrame()
CanvasReaderLoad ==
  /\ cxPc = "reading"
  /\ cxFrames' = Append(cxFrames, [number |-> FrameNumber(cxFrames), time |-> cxTime])
  /\ UNCHANGED cxDuration
  /\ ExtractFrame(cxTime + FrameInterval)
  /\ UNCHANGED <<envVars, appVars, apiVars, adVars, dropVars, proxyVars, cdnVars, canvasVars, instanceVars>>

(***************************************************************************)
(* hooks/useAIEnhancer.ts                                                  *)
(***************************************************************************)
\* Math.min(255, data[i] * 1.1) stored into a Uint8ClampedArray
Contrast(px) == Min(MaxChannel, (px * 11 + 5) \div 10)

enhancedFallbackProcessing(imageData, scale) ==
  [width  |-> imageData.width * scale,
   height |-> imageData.height * scale,
   px     |-> Contrast(imageData.px)]

\* the pixels the browser decodes from the prediction's output URL
RemoteImage == [width |-> 0, height |-> 0, px |-> 0]
NoImage == [width |-> 0, height |-> 0, px |-> 0]

\* a polling loop that also goes round again on 'succeeded'
ShouldPollAlsoSucceeded(res) == res.status \in {"starting", "processing", "succeeded"}

\* the condition of the polling loop
ShouldPoll(res) == res.status = "starting" \/ res.status = "processing"

\* enhanceFrame without its check of result.output
AfterResultNoOutputCheck(res) ==
  IF res.status \in {"starting", "processing"} THEN "sleep"
  ELSE IF res.status = "failed" THEN "fallback"
  ELSE IF res.status # "succeeded" THEN "fallback"
  ELSE "imgLoad"

\* enhanceFrame that keeps polling a canceled prediction
AfterResultPollsCanceled(res) ==
  IF res.status \in {"starting", "processing", "canceled"} THEN "sleep"
  ELSE IF res.status = "failed" THEN "fallback"
  ELSE IF res.status # "succeeded" \/ res.output = "none" THEN "fallback"
  ELSE "imgLoad"

\* where enhanceFrame goes with the JSON it holds in result
AfterResult(res) ==
  IF ShouldPoll(res) THEN "sleep"
  ELSE IF res.status = "failed" THEN "fallback"
  ELSE IF res.status # "succeeded" \/ res.output = "none" THEN "fallback"
  ELSE "imgLoad"

\* the catch block of enhanceFrame
CatchFallback(args) ==
  [kind |-> "fallback", data |-> enhancedFallbackProcessing(args.image, args.scale)]

\* img.onerror rejects the promise enhanceFrame returned from inside its try
\* block without awaiting it, so the catch block never sees the rejection
ImageErrorSettlement(args) == [pc |-> "rejected", res |-> [kind |-> "imageError", data |-> NoImage]]

EnhanceRequest(imageData, scale) ==
  [type |-> "req", path |-> "/api/enhance", method |-> "POST",
   image |-> toDataURL(imageData), scale |-> scale]

StatusRequest(id) ==
  [type |-> "req", path |-> "/api/status", method |-> "GET", id |-> id]

\* an initModel without its first line
InitModelStartNoReturn ==
  /\ isModelLoading' = TRUE
  /\ modelError' = Null
  /\ initI' = 0
  /\ downloadProgress' = 0
  /\ initPc' = "wait"
  /\ UNCHANGED aiModel

\* initModel up to its first timer
InitModelStart ==
  IF aiModel
    THEN UNCHANGED enhancerVars
    ELSE /\ isModelLoading' = TRUE
         /\ modelError' = Null
         /\ initI' = 0
         /\ downloadProgress' = 0
         /\ initPc' = "wait"
         /\ UNCHANGED aiModel

\* the effect of VideoProcessor that initialises the model
InitModelEffect ==
  IF ~aiModel /\ ~isModelLoading THEN InitModelStart ELSE UNCHANGED enhancerVars

\* a 150 ms timer of initModel fires: the next round of the loop, or its end
InitModelTick ==
  /\ initPc = "wait"
  /\ IF initI + 25 <= 100
       THEN /\ initI' = initI + 25
            /\ downloadProgress' = initI + 25
            /\ UNCHANGED <<aiModel, isModelLoading, initPc>>
       ELSE /\ aiModel' = TRUE
            /\ downloadProgress' = 100
            /\ isModelLoading' = FALSE
            /\ initPc' = "done"
            /\ UNCHANGED initI
  /\ UNCHANGED <<envVars, otherVars, processVars, uiVars, loaderVars, modelError, callVars>>

\* initModel, which the hook returns, is called again while no call of it is
\* running
CallInitModel ==
  /\ vp = "mounted"
  /\ ~isModelLoading
  /\ InitModelStart
  /\ initCalls' = Min(initCalls + 1, MaxInitCalls)
  /\ UNCHANGED <<envVars, sideVars, ffmpegTerminated, loadStarts, processVars, uiVars,
                 loaderVars, callVars>>

\* enhanceFrame(imageData, scale) up to its first await
EnhanceFrameStart(imageData, scale) ==
  /\ efArgs' = [image |-> imageData, scale |-> scale]
  /\ result' = NoBody
  /\ img' = "none"
  /\ lastResp' = NoMsg
  /\ reqSinceResp' = 0
  /\ IF ~aiModel
       THEN /\ efPc' = "rejected"
            /\ efResult' = [kind |-> "notInitialized", data |-> NoImage]
            /\ postCount' = 0
            /\ net' = NoMsg
       ELSE IF DEV
       THEN /\ efPc' = "resolved"
            /\ efResult' = [kind |-> "fallback",
                             data |-> enhancedFallbackProcessing(imageData, scale)]
            /\ postCount' = 0
            /\ net' = NoMsg
       ELSE /\ efPc' = "awaitPost"
            /\ efResult' = NoResult
            /\ postCount' = 1
            /\ net' = EnhanceRequest(imageData, scale)

\* a call of enhanceFrame with any frame and any scale of the slider
CallEnhanceFrame ==
  /\ vp = "mounted"
  /\ efPc \in {"idle", "resolved", "rejected"}
  /\ \E imageData \in Images, scale \in Scales : EnhanceFrameStart(imageData, scale)
  /\ UNCHANGED <<envVars, otherVars, processVars, uiVars, loaderVars, enhancerVars, replicateCalls>>

\* enhanceFrame continues with the JSON res of an ok response
Continue(res) ==
  LET next == AfterResult(res) IN
    /\ result' = res
    /\ img' = IF next = "imgLoad" THEN "loading" ELSE img
    /\ IF next = "fallback"
         THEN efPc' = "resolved" /\ efResult' = CatchFallback(efArgs)
         ELSE efPc' = next /\ UNCHANGED efResult

\* the fetch of /api/enhance settles
ReceivePost ==
  /\ efPc = "awaitPost"
  /\ net.type \in {"resp", "neterr"}
  /\ net' = NoMsg
  /\ IF net.type = "resp"
       THEN lastResp' = net /\ reqSinceResp' = 0
       ELSE UNCHANGED <<lastResp, reqSinceResp>>
  /\ IF net.type = "resp" /\ net.ok
       THEN Continue(net.body)
       ELSE /\ efPc' = "resolved"
            /\ efResult' = CatchFallback(efArgs)
            /\ UNCHANGED <<result, img>>
  /\ UNCHANGED <<envVars, otherVars, processVars, uiVars, loaderVars, enhancerVars, efArgs, postCount, replicateCalls>>

\* the 1000 ms timer of the polling loop fires and the status request is sent
PollTimer ==
  /\ efPc = "sleep"
  /\ efPc' = "awaitStatus"
  /\ net' = StatusRequest(result.id)
  /\ reqSinceResp' = reqSinceResp + 1
  /\ UNCHANGED <<envVars, otherVars, processVars, uiVars, loaderVars, enhancerVars>>
  /\ UNCHANGED <<efArgs, efResult, result, img, lastResp, postCount, replicateCalls>>

\* the fetch of /api/status settles
ReceiveStatus ==
  /\ efPc = "awaitStatus"
  /\ net.type \in {"resp", "neterr"}
  /\ net' = NoMsg
  /\ IF net.type = "resp"
       THEN lastResp' = net /\ reqSinceResp' = 0
       ELSE UNCHANGED <<lastResp, reqSinceResp>>
  /\ IF net.type = "resp" /\ net.ok
       THEN Continue(net.body)
       ELSE /\ efPc' = "resolved"
            /\ efResult' = CatchFallback(efArgs)
            /\ UNCHANGED <<result, img>>
  /\ UNCHANGED <<envVars, otherVars, processVars, uiVars, loaderVars, enhancerVars, efArgs, postCount, replicateCalls>>

\* img.onload: the promise resolves with the decoded pixels
ImgOnload ==
  /\ efPc = "imgLoad"
  /\ efPc' = "resolved"
  /\ efResult' = [kind |-> "remote", data |-> RemoteImage]
  /\ img' = "loaded"
  /\ UNCHANGED <<envVars, otherVars, processVars, uiVars, loaderVars, enhancerVars>>
  /\ UNCHANGED <<efArgs, result, net, lastResp, reqSinceResp, postCount, replicateCalls>>

\* img.onerror
ImgOnerror ==
  /\ efPc = "imgLoad"
  /\ efPc' = ImageErrorSettlement(efArgs).pc
  /\ efResult' = ImageErrorSettlement(efArgs).res
  /\ img' = "error"
  /\ UNCHANGED <<envVars, otherVars, processVars, uiVars, loaderVars, enhancerVars>>
  /\ UNCHANGED <<efArgs, result, net, lastResp, reqSinceResp, postCount, replicateCalls>>

(***************************************************************************)
(* hooks/useFFmpeg.ts                                                      *)
(***************************************************************************)
\* strategy.load() up to its first await: the first two strategies call
\* ffmpegInstance.load at once, blob-conversion first downloads the core script
FirstLoadState(k) == IF k = NumStrategies THEN "blobCore" ELSE "pending"

\* setLoadingProgress(20 + index * 15)
StrategyProgress(k) == 20 + (k - 1) * 15

\* a loop that goes on to the next strategy after one has loaded
BreakLoopNever(ld) == FALSE

\* if (loaded) break
BreakLoop(ld) == ld

\* a load that ends without an error although no strategy loaded
FinalErrorNever(ld) == Null

\* the error state load ends with: the throw after the loop and its catch
FinalError(ld) == IF ld THEN Null ELSE "FFmpeg loading failed"

\* a race that hands every settlement of its promises to the awaiting code
FirstToSettleAlways(winner) == winner # "notStarted"

\* Promise.race: a promise settles the race only if it is the first to settle
FirstToSettle(winner) == winner = "pending"

\* the promise of strategy.load() has not settled
Outstanding(st) == st \in {"blobCore", "blobWasm", "pending"}

\* the loop of load from its k-th iteration on, up to the next await: ld is the
\* local loaded; ls, ts, rw are the promise, timer and race states so far
LoopHead(k, ld, ls, ts, rw, progress) ==
  /\ loaded' = ld
  /\ ffmpegInst' = TRUE
  /\ IF k <= NumStrategies /\ ~BreakLoop(ld)
       THEN /\ strat' = k
            /\ loadSt' = [ls EXCEPT ![k] = FirstLoadState(k)]
            /\ timerSt' = [ts EXCEPT ![k] = "armed"]
            /\ raceWinner' = [rw EXCEPT ![k] = "pending"]
            /\ ffmpegProgress' = StrategyProgress(k)
            /\ isFFmpegLoading' = TRUE
            /\ ffmpegError' = Null
            /\ ldPc' = "race"
       ELSE /\ loadSt' = ls
            /\ timerSt' = ts
            /\ raceWinner' = rw
            /\ ffmpegProgress' = progress
            /\ isFFmpegLoading' = FALSE
            /\ ffmpegError' = FinalError(ld)
            /\ ldPc' = "done"
            /\ UNCHANGED strat

\* load from its try block on: a new instance, then the first strategy
BeginLoad ==
  /\ LoopHead(1, FALSE, loadSt, timerSt, raceWinner, 10)
  /\ loadStarts' = Min(loadStarts + 1, MaxLoads)
  /\ UNCHANGED <<sab, isFFmpegLoaded>>

\* an effect and a load that do in development what they do in production
LoaderEffectNoDevCheck ==
  /\ ldPc' = "delay"
  /\ UNCHANGED <<sab, strat, loaded, loadSt, timerSt, raceWinner, ffmpegVars>>

\* the effect of useFFmpeg: load at once in development mode, where it only
\* sets the error; after a delay in production
LoaderEffect ==
  IF DEV
    THEN /\ ffmpegError' = "Development mode - FFmpeg disabled for faster loading"
         /\ isFFmpegLoading' = FALSE
         /\ ldPc' = "done"
         /\ UNCHANGED <<sab, strat, loaded, loadSt, timerSt, raceWinner>>
         /\ UNCHANGED <<ffmpegInst, isFFmpegLoaded, ffmpegProgress>>
    ELSE /\ ldPc' = "delay"
         /\ UNCHANGED <<sab, strat, loaded, loadSt, timerSt, raceWinner, ffmpegVars>>

\* ffmpeg as the closure of the effect holds it: the effect has no
\* dependencies and ran after the first render, where ffmpeg is the null of
\* useState
ClosureFfmpeg == FALSE

\* the cleanup of the effect: in production the function returned beside
\* setTimeout, which only clears the start delay; in development the one that
\* terminates the ffmpeg of its closure
LoaderCleanup ==
  /\ ldPc' = IF ~DEV /\ ldPc = "delay" THEN "cancelled" ELSE ldPc
  /\ ffmpegTerminated' = (ffmpegTerminated \/ (DEV /\ ClosureFfmpeg))
  /\ UNCHANGED <<sab, strat, loaded, loadSt, timerSt, raceWinner, ffmpegVars>>

\* the start delay elapses: load runs up to its first await
DelayTimer ==
  /\ ldPc = "delay"
  /\ IF sab
       THEN BeginLoad
       ELSE /\ ldPc' = "sabWait"
            /\ UNCHANGED <<sab, strat, loaded, loadSt, timerSt, raceWinner, ffmpegVars>>
            /\ UNCHANGED loadStarts
  /\ UNCHANGED <<envVars, sideVars, ffmpegTerminated, initCalls, processVars, uiVars,
                 enhancerVars, callVars>>

\* the 3000 ms wait for cross-origin isolation elapses
SabTimer ==
  /\ ldPc = "sabWait"
  /\ IF sab
       THEN BeginLoad
       ELSE /\ ffmpegError' = "SharedArrayBuffer not available - cross-origin isolation required"
            /\ isFFmpegLoading' = FALSE
            /\ ldPc' = "done"
            /\ UNCHANGED <<sab, strat, loaded, loadSt, timerSt, raceWinner>>
            /\ UNCHANGED <<ffmpegInst, isFFmpegLoaded, ffmpegProgress, loadStarts>>
  /\ UNCHANGED <<envVars, sideVars, ffmpegTerminated, initCalls, processVars, uiVars,
                 enhancerVars, callVars>>

\* the service worker makes SharedArrayBuffer available during the wait
SabEnable ==
  /\ ldPc = "sabWait" /\ ~sab
  /\ sab' = TRUE
  /\ UNCHANGED <<ldPc, strat, loaded, loadSt, timerSt, raceWinner, ffmpegVars>>
  /\ UNCHANGED <<envVars, otherVars, processVars, uiVars, enhancerVars, callVars>>

\* a toBlobURL download of the blob-conversion strategy completes: the second
\* download starts, or ffmpegInstance.load is called
BlobFetched ==
  /\ loadSt[NumStrategies] \in {"blobCore", "blobWasm"}
  /\ loadSt' = [loadSt EXCEPT ![NumStrategies] =
                  IF loadSt[NumStrategies] = "blobCore" THEN "blobWasm" ELSE "pending"]
  /\ UNCHANGED <<sab, ldPc, strat, loaded, timerSt, raceWinner, ffmpegVars>>
  /\ UNCHANGED <<envVars, otherVars, processVars, uiVars, enhancerVars, callVars>>

\* the promise of strategy k's load resolves; if that settles the race load is
\* awaiting, load goes on after it: isLoaded, then the loop
LoadResolves(k) ==
  /\ loadSt[k] = "pending"
  /\ LET ls == [loadSt EXCEPT ![k] = "resolved"]
         rw == IF raceWinner[k] = "pending"
                 THEN [raceWinner EXCEPT ![k] = "load"] ELSE raceWinner
     IN IF FirstToSettle(raceWinner[k])
          THEN /\ isFFmpegLoaded' = TRUE
               /\ LoopHead(k + 1, TRUE, ls, timerSt, rw, 100)
               /\ UNCHANGED sab
          ELSE /\ loadSt' = ls
               /\ raceWinner' = rw
               /\ UNCHANGED <<sab, ldPc, strat, loaded, timerSt, ffmpegVars>>
  /\ UNCHANGED <<envVars, otherVars, processVars, uiVars, enhancerVars, callVars>>

\* the catch block of the loop, up to its 500 ms wait
StrategyFailed ==
  /\ ldPc' = "backoff"
  /\ UNCHANGED <<sab, strat, loaded, ffmpegVars>>

\* the promise of strategy k's load rejects (a download or the load itself)
LoadRejects(k) ==
  /\ Outstanding(loadSt[k])
  /\ loadSt' = [loadSt EXCEPT ![k] = "rejected"]
  /\ raceWinner' = IF raceWinner[k] = "pending"
                     THEN [raceWinner EXCEPT ![k] = "reject"] ELSE raceWinner
  /\ IF FirstToSettle(raceWinner[k])
       THEN StrategyFailed
       ELSE UNCHANGED <<sab, ldPc, strat, loaded, ffmpegVars>>
  /\ UNCHANGED timerSt
  /\ UNCHANGED <<envVars, otherVars, processVars, uiVars, enhancerVars, callVars>>

\* the timer of strategy k's timeoutPromise fires and rejects it
TimeoutFires(k) ==
  /\ timerSt[k] = "armed"
  /\ timerSt' = [timerSt EXCEPT ![k] = "fired"]
  /\ raceWinner' = IF raceWinner[k] = "pending"
                     THEN [raceWinner EXCEPT ![k] = "timeout"] ELSE raceWinner
  /\ IF FirstToSettle(raceWinner[k])
       THEN StrategyFailed
       ELSE UNCHANGED <<sab, ldPc, strat, loaded, ffmpegVars>>
  /\ UNCHANGED loadSt
  /\ UNCHANGED <<envVars, otherVars, processVars, uiVars, enhancerVars, callVars>>

\* the 500 ms wait after a failed strategy elapses: the next iteration, or the
\* end of load
BackoffTimer ==
  /\ ldPc = "backoff"
  /\ LoopHead(strat + 1, loaded, loadSt, timerSt, raceWinner, ffmpegProgress)
  /\ UNCHANGED <<sab, isFFmpegLoaded>>
  /\ UNCHANGED <<envVars, otherVars, processVars, uiVars, enhancerVars, callVars>>

(***************************************************************************)
(* components/VideoProcessor.tsx                                           *)
(***************************************************************************)
\* the branch that shows the advanced and the lightweight button
AdvancedBranch == isFFmpegLoaded /\ aiModel /\ ~processingStarted

\* the branch that shows the lightweight and the retry button
LightweightBranch == ffmpegError # Null /\ aiModel /\ ~processingStarted

\* disabled of the single button of the last branch
SingleButtonDisabled ==
  \/ processingStarted \/ isFFmpegLoading \/ isModelLoading \/ modelError # Null
  \/ (~isFFmpegLoaded /\ ffmpegError = Null)

\* a render that offers the lightweight button only beside the advanced one
LightweightEnabledOnlyAdvanced == enhancedVideoUrl = Null /\ AdvancedBranch

\* the render shows an enabled button whose onClick is handleLightweightProcess
LightweightEnabled ==
  /\ enhancedVideoUrl = Null
  /\ \/ AdvancedBranch
     \/ LightweightBranch
     \/ (~isFFmpegLoaded /\ ~SingleButtonDisabled)

\* the render shows a button whose onClick is retryFFmpegLoad
RetryShown ==
  \/ (enhancedVideoUrl = Null /\ ~AdvancedBranch /\ LightweightBranch)
  \/ (ffmpegError # Null /\ ~DEV)

\* the progress handleLightweightProcess sets after each of its timers
NextLightweightProgress(progress) == progress + 25

\* a click on a lightweight button: handleLightweightProcess up to its first timer
ClickLightweight ==
  /\ vp = "mounted"
  /\ LightweightEnabled
  /\ IF ~aiModel
       THEN UNCHANGED uiVars
       ELSE /\ processingStarted' = TRUE
            /\ processingProgress' = 25
            /\ lwPc' = "waiting"
            /\ UNCHANGED <<vp, enhancedVideoUrl>>
  /\ UNCHANGED <<envVars, otherVars, processVars, loaderVars, enhancerVars, callVars>>

\* a 1000 ms timer of handleLightweightProcess fires
LightweightTimer ==
  /\ lwPc = "waiting"
  /\ processingProgress' = NextLightweightProgress(processingProgress)
  /\ IF NextLightweightProgress(processingProgress) >= 100
       THEN enhancedVideoUrl' = VideoUrl /\ lwPc' = "done"
       ELSE UNCHANGED <<enhancedVideoUrl, lwPc>>
  /\ UNCHANGED <<vp, processingStarted>>
  /\ UNCHANGED <<envVars, otherVars, processVars, loaderVars, enhancerVars, callVars>>

\* a slider whose onChange reaches setEnhancementScale of VideoProcessor
ScaleAfterChangeWired(scale, value) == value

\* enhancementScale after the slider of EnhancementSettings moved to value:
\* EnhancementSettings takes the props enhancementScale, setEnhancementScale and
\* isProcessing, VideoProcessor passes it scale, onScaleChange and disabled, so
\* onChange calls an undefined setEnhancementScale and throws before any state
\* is set, and the slider is never disabled
ScaleAfterChange(scale, value) == scale

\* the user moves the slider to a value: the onChange of EnhancementSettings
ChangeScale ==
  /\ vp = "mounted"
  /\ \E value \in Scales :
       enhancementScale' = ScaleAfterChange(enhancementScale, value)
  /\ UNCHANGED <<envVars, otherVars, uiVars, runVars, loaderVars, enhancerVars, callVars>>

\* the render shows an enabled button whose onClick is handleProcess
ProcessEnabled ==
  /\ enhancedVideoUrl = Null
  /\ \/ AdvancedBranch
     \/ (~LightweightBranch /\ isFFmpegLoaded /\ ~SingleButtonDisabled)

\* Math.round((done / total) * 100)
Percent(done, total) == (200 * done + total) \div (2 * total)

\* a loop that ends after its first frame
LoopDoneAfterFirst(i, n) == i >= n \/ i >= 1

\* the loop of handleProcess ends: i < frames.length is false
LoopDone(i, n) == i >= n

\* a count of processed frames that runs ahead
ProcessedAfterSkips(i) == i + 2

\* setProcessedFrames(i + 1)
ProcessedAfter(i) == i + 1

\* a catch block that forgets to reset isExtractingFrames
CatchProcessKeepsExtracting ==
  /\ hpPc' = "caught"
  /\ UNCHANGED isExtractingFrames

\* the catch block of handleProcess
CatchProcess ==
  /\ isExtractingFrames' = FALSE
  /\ hpPc' = "caught"

\* the loop of handleProcess at counter i, up to its next await, or the end of
\* the try block after it
ProcessLoop(i, n) ==
  /\ hpI' = i
  /\ IF LoopDone(i, n)
       THEN /\ enhancedVideoUrl' = VideoUrl
            /\ isExtractingFrames' = FALSE
            /\ hpPc' = "done"
       ELSE /\ hpPc' = "converting"
            /\ UNCHANGED <<enhancedVideoUrl, isExtractingFrames>>

\* a click on an advanced mode button: handleProcess up to its await of
\* extractFrames
ClickProcess ==
  /\ vp = "mounted"
  /\ ProcessEnabled
  /\ IF ~isFFmpegLoaded \/ ~aiModel
       THEN UNCHANGED <<uiVars, runVars>>
       ELSE /\ processingStarted' = TRUE
            /\ isExtractingFrames' = TRUE
            /\ hpScale' = enhancementScale
            /\ hpPc' = "extracting"
            /\ UNCHANGED <<vp, enhancedVideoUrl, processingProgress, lwPc>>
            /\ UNCHANGED <<totalFrames, processedFrames, frames, hpI, efCalls>>
  /\ UNCHANGED <<envVars, otherVars, settingsVars, loaderVars, enhancerVars, callVars>>

\* extractFrames resolves with its frames, sorted by name
ExtractResolves ==
  /\ hpPc = "extracting"
  /\ ffmpegInst /\ isFFmpegLoaded
  /\ \E n \in 0..MaxFrames :
       /\ frames' = [k \in 1..n |-> k]
       /\ totalFrames' = n
       /\ ProcessLoop(0, n)
  /\ UNCHANGED <<vp, processingStarted, processingProgress, lwPc>>
  /\ UNCHANGED <<processedFrames, hpScale, efCalls>>
  /\ UNCHANGED <<envVars, otherVars, settingsVars, loaderVars, enhancerVars, callVars>>

\* extractFrames throws: the codec is not ready, or one of its calls fails
ExtractRejects ==
  /\ hpPc = "extracting"
  /\ CatchProcess
  /\ UNCHANGED <<uiVars, totalFrames, processedFrames, frames, hpI, hpScale, efCalls>>
  /\ UNCHANGED <<envVars, otherVars, settingsVars, loaderVars, enhancerVars, callVars>>

\* convertFrameToImageData resolves with the pixels of frames[i], and
\* handleProcess calls enhanceFrame with them
ConvertResolves ==
  /\ hpPc = "converting"
  /\ \E imageData \in Images : EnhanceFrameStart(imageData, hpScale)
  /\ efCalls' = Append(efCalls, frames[hpI + 1])
  /\ hpPc' = "enhancing"
  /\ UNCHANGED <<uiVars, isExtractingFrames, totalFrames, processedFrames, frames, hpI, hpScale>>
  /\ UNCHANGED <<envVars, otherVars, settingsVars, loaderVars, enhancerVars, replicateCalls>>

\* convertFrameToImageData rejects: the frame does not load as an image, or
\* there is no 2D context
ConvertRejects ==
  /\ hpPc = "converting"
  /\ CatchProcess
  /\ UNCHANGED <<uiVars, totalFrames, processedFrames, frames, hpI, hpScale, efCalls>>
  /\ UNCHANGED <<envVars, otherVars, settingsVars, loaderVars, enhancerVars, callVars>>

\* the enhanceFrame call of frames[i] resolved: the rest of the loop body, then
\* the next round
FrameEnhanced ==
  /\ hpPc = "enhancing"
  /\ efPc = "resolved"
  /\ processedFrames' = ProcessedAfter(hpI)
  /\ processingProgress' = Percent(hpI + 1, Len(frames))
  /\ ProcessLoop(hpI + 1, Len(frames))
  /\ UNCHANGED <<vp, processingStarted, lwPc, totalFrames, frames, hpScale, efCalls>>
  /\ UNCHANGED <<envVars, otherVars, settingsVars, loaderVars, enhancerVars, callVars>>

\* the enhanceFrame call of frames[i] rejected
FrameThrows ==
  /\ hpPc = "enhancing"
  /\ efPc = "rejected"
  /\ CatchProcess
  /\ UNCHANGED <<uiVars, totalFrames, processedFrames, frames, hpI, hpScale, efCalls>>
  /\ UNCHANGED <<envVars, otherVars, settingsVars, loaderVars, enhancerVars, callVars>>

(***************************************************************************)
(* components/AdSense/AdSenseScript.tsx                                    *)
(***************************************************************************)
\* a guard that loads AdSense in development mode too
AdSenseDisabledNoDevCheck(clientId, enabled, dev) == clientId.length = 0 \/ ~enabled

\* !clientId || !adsenseEnabled || isDevelopment
AdSenseDisabled(clientId, enabled, dev) == clientId.length = 0 \/ ~enabled \/ dev

\* clientId.startsWith('ca-pub-') && clientId.length >= 15
ValidClientId(clientId) ==
  clientId.prefix = "ca-pub-" /\ clientId.length >= MinClientIdLength

\* document.querySelector finds a script of googlesyndication.com
ExistingScript(head) == head > 0

\* the effect of AdSenseScript, run when it mounts: it reads the environment
\* of the build, which is any configuration at the first mount of a page and
\* the same one at every later mount
AdMount ==
  /\ ~adMounted
  /\ adMounted' = TRUE
  /\ adEvent' = "mount"
  /\ \E clientId \in ClientIds, adsenseEnabled \in BOOLEAN :
       /\ adEvent # "none" => clientId = adClient /\ adsenseEnabled = adEnabled
       /\ adClient' = clientId
       /\ adEnabled' = adsenseEnabled
       /\ IF \/ AdSenseDisabled(clientId, adsenseEnabled, DEV)
             \/ ~ValidClientId(clientId)
             \/ ExistingScript(adHead)
            THEN /\ adCleanup' = FALSE
                 /\ UNCHANGED <<adHead, adScript, adAttached>>
            ELSE /\ adHead' = adHead + 1
                 /\ adScript' = "loading"
                 /\ adAttached' = TRUE
                 /\ adCleanup' = TRUE
  /\ UNCHANGED <<envVars, appVars, apiVars, dropVars, variantVars, instanceVars>>

\* AdSenseScript unmounts: the cleanup function, if the effect returned one,
\* removes the first script of googlesyndication.com it finds
AdUnmount ==
  /\ adMounted
  /\ adMounted' = FALSE
  /\ adCleanup' = FALSE
  /\ adEvent' = "unmount"
  /\ IF adCleanup /\ ExistingScript(adHead)
       THEN adHead' = adHead - 1 /\ adAttached' = FALSE
       ELSE UNCHANGED <<adHead, adAttached>>
  /\ UNCHANGED adScript
  /\ UNCHANGED <<envVars, adClient, adEnabled, appVars, apiVars, dropVars, variantVars, instanceVars>>

\* script.onerror: the script removes itself if it is still in the document
AdScriptError ==
  /\ adScript = "loading"
  /\ adScript' = "failed"
  /\ adEvent' = "error"
  /\ IF adAttached
       THEN adHead' = adHead - 1 /\ adAttached' = FALSE
       ELSE UNCHANGED <<adHead, adAttached>>
  /\ UNCHANGED <<adMounted, adCleanup>>
  /\ UNCHANGED <<envVars, adClient, adEnabled, appVars, apiVars, dropVars, variantVars, instanceVars>>

\* script.onload
AdScriptLoad ==
  /\ adScript = "loading"
  /\ adScript' = "loaded"
  /\ adEvent' = "load"
  /\ UNCHANGED <<adMounted, adCleanup, adHead, adAttached>>
  /\ UNCHANGED <<envVars, adClient, adEnabled, appVars, apiVars, dropVars, variantVars, instanceVars>>

(***************************************************************************)
(* components/VideoEnhancer.tsx                                            *)
(***************************************************************************)
\* handleVideoUpload: VideoProcessor replaces VideoUploader, and the effects of
\* the mounted VideoProcessor and its hooks run
HandleVideoUpload ==
  /\ vp' = "mounted"
  /\ processingStarted' = FALSE
  /\ InitModelEffect
  /\ LoaderEffect
  /\ UNCHANGED <<enhancedVideoUrl, processingProgress, lwPc, processVars, callVars>>

\* a video file is uploaded
Upload ==
  /\ vp = "none"
  /\ HandleVideoUpload
  /\ UNCHANGED <<envVars, otherVars>>

(***************************************************************************)
(* components/VideoUploader.tsx                                            *)
(***************************************************************************)
\* file.type.startsWith('video/')
StartsWithVideo(type) == Len(type) >= 2 /\ type[1] = "video"

\* a size check that lets every file through
ExceedsLimitNever(size) == FALSE

\* file.size > 100 * 1024 * 1024
ExceedsLimit(size) == size > MaxFileSize

\* onDrop, and handleVideoUpload when onDrop invokes onVideoUpload
Drop ==
  /\ vp = "none"
  /\ \E acceptedFiles \in DroppedFiles :
       /\ lastDrop' = acceptedFiles
       /\ IF Len(acceptedFiles) = 0
            THEN /\ upError' = Null
                 /\ UNCHANGED <<uploadCalls, appVars>>
            ELSE IF ~StartsWithVideo(acceptedFiles[1].type)
            THEN /\ upError' = "Please upload a valid video file (MP4, WebM, etc.)"
                 /\ UNCHANGED <<uploadCalls, appVars>>
            ELSE IF ExceedsLimit(acceptedFiles[1].size)
            THEN /\ upError' = "File size exceeds 100MB limit for browser processing"
                 /\ UNCHANGED <<uploadCalls, appVars>>
            ELSE /\ upError' = Null
                 /\ uploadCalls' = Append(uploadCalls, acceptedFiles[1])
                 /\ HandleVideoUpload
  /\ UNCHANGED <<envVars, apiVars, adVars, variantVars, instanceVars>>

\* handleReset: VideoProcessor is unmounted and the cleanup of its effects runs;
\* what it had started goes on, unseen
Reset ==
  /\ vp = "mounted"
  /\ vp' = "unmounted"
  /\ processingStarted' = FALSE
  /\ LoaderCleanup
  /\ UNCHANGED <<envVars, sideVars, loadStarts, initCalls, processVars, enhancedVideoUrl,
                 processingProgress, lwPc, enhancerVars, callVars>>

\* a video is uploaded after a reset: VideoEnhancer renders a new
\* VideoProcessor, whose state and whose hooks' state are those of a first
\* render, and its effects run: initModel, and the effect of useFFmpeg. The
\* load and the initModel call of the unmounted VideoProcessor have returned
ReUpload ==
  /\ vp = "unmounted"
  /\ ldPc \in {"cancelled", "done"}
  /\ initPc \in {"idle", "done"}
  /\ lwPc \in {"idle", "done"}
  /\ hpPc \in {"idle", "done", "caught"}
  /\ vp' = "mounted"
  /\ processingStarted' = FALSE
  /\ enhancedVideoUrl' = Null
  /\ processingProgress' = 0
  /\ lwPc' = "idle"
  /\ enhancementScale' = DefaultScale
  /\ isExtractingFrames' = FALSE
  /\ totalFrames' = 0
  /\ processedFrames' = 0
  /\ hpPc' = "idle"
  /\ frames' = <<>>
  /\ hpI' = 0
  /\ hpScale' = 0
  /\ efCalls' = <<>>
  /\ aiModel' = FALSE
  /\ isModelLoading' = TRUE
  /\ modelError' = Null
  /\ initI' = 0
  /\ downloadProgress' = 0
  /\ initPc' = "wait"
  /\ strat' = 0
  /\ loaded' = FALSE
  /\ loadSt' = [k \in Strategies |-> "notStarted"]
  /\ timerSt' = [k \in Strategies |-> "unset"]
  /\ raceWinner' = [k \in Strategies |-> "notStarted"]
  /\ ffmpegInst' = FALSE
  /\ isFFmpegLoaded' = FALSE
  /\ isFFmpegLoading' = FALSE
  /\ ffmpegProgress' = 0
  /\ IF DEV
       THEN /\ ffmpegError' = "Development mode - FFmpeg disabled for faster loading"
            /\ ldPc' = "done"
       ELSE /\ ffmpegError' = Null
            /\ ldPc' = "delay"
  /\ UNCHANGED <<envVars, otherVars, sab, callVars>>

(***************************************************************************)
(* Specifications                                                          *)
(***************************************************************************)
Init ==
  /\ DEV \in BOOLEAN
  /\ apiToken \in BOOLEAN
  /\ vp = "none"
  /\ processingStarted = FALSE
  /\ enhancedVideoUrl = Null
  /\ processingProgress = 0
  /\ lwPc = "idle"
  /\ enhancementScale = DefaultScale
  /\ isExtractingFrames = FALSE
  /\ totalFrames = 0
  /\ processedFrames = 0
  /\ hpPc = "idle"
  /\ frames = <<>>
  /\ hpI = 0
  /\ hpScale = 0
  /\ efCalls = <<>>
  /\ sab \in BOOLEAN
  /\ ldPc = "none"
  /\ strat = 0
  /\ loaded = FALSE
  /\ loadSt = [k \in Strategies |-> "notStarted"]
  /\ timerSt = [k \in Strategies |-> "unset"]
  /\ raceWinner = [k \in Strategies |-> "notStarted"]
  /\ ffmpegInst = FALSE
  /\ isFFmpegLoaded = FALSE
  /\ isFFmpegLoading = FALSE
  /\ ffmpegError = Null
  /\ ffmpegProgress = 0
  /\ aiModel = FALSE
  /\ isModelLoading = FALSE
  /\ modelError = Null
  /\ downloadProgress = 0
  /\ initPc = "idle"
  /\ initI = 0
  /\ efPc = "idle"
  /\ efArgs = NoArgs
  /\ efResult = NoResult
  /\ result = NoBody
  /\ img = "none"
  /\ net = NoMsg
  /\ lastResp = NoMsg
  /\ reqSinceResp = 0
  /\ postCount = 0
  /\ replicateCalls = 0
  /\ apiCall = NoCall
  /\ adClient = NoClientId
  /\ adEnabled = FALSE
  /\ adMounted = FALSE
  /\ adCleanup = FALSE
  /\ adHead = 0
  /\ adScript = "none"
  /\ adAttached = FALSE
  /\ adEvent = "none"
  /\ upError = Null
  /\ lastDrop = <<>>
  /\ uploadCalls = <<>>
  /\ proxyCall = NoProxyCall
  /\ cdnPc = "idle"
  /\ cdnI = 0
  /\ cdnLastError = Null
  /\ cdnLoad = [k \in CdnOptions |-> "none"]
  /\ cdnTimer = [k \in CdnOptions |-> "none"]
  /\ cdnInst = FALSE
  /\ cdnIsLoaded = FALSE
  /\ cdnIsLoading = FALSE
  /\ cdnError = Null
  /\ cdnProgress = 0
  /\ cvPc = "idle"
  /\ cvComplete = FALSE
  /\ cvGlobal = "none"
  /\ cvProxyLoad = "none"
  /\ cvCdnLoad = "none"
  /\ cvCdnTimer = "none"
  /\ cvInst = FALSE
  /\ cvIsLoaded = FALSE
  /\ cvIsLoading = FALSE
  /\ cvError = Null
  /\ cvProgress = 0
  /\ compatibilityMode = "ffmpeg"
  /\ cvExtract = "idle"
  /\ cxPc = "idle"
  /\ cxDuration = 0
  /\ cxTime = 0
  /\ cxFrames = <<>>
  /\ cxSeeks = <<>>
  /\ ffmpegTerminated = FALSE
  /\ loadStarts = 0
  /\ initCalls = 0

\* the enhancer hook and the two handlers behind it
NextEnhance ==
  \/ Upload
  \/ InitModelTick
  \/ CallEnhanceFrame
  \/ ServeEnhance
  \/ ServeStatus
  \/ FetchFails
  \/ ReceivePost
  \/ PollTimer
  \/ ReceiveStatus
  \/ ImgOnload
  \/ ImgOnerror

SpecEnhance == Init /\ [][NextEnhance]_vars

\* the codec loader of useFFmpeg in a mounted, then possibly unmounted, component
NextLoader ==
  \/ Upload
  \/ Reset
  \/ InitModelTick
  \/ DelayTimer
  \/ SabTimer
  \/ SabEnable
  \/ BlobFetched
  \/ \E k \in Strategies : LoadResolves(k)
  \/ \E k \in Strategies : LoadRejects(k)
  \/ \E k \in Strategies : TimeoutFires(k)
  \/ BackoffTimer

SpecLoader == Init /\ [][NextLoader]_vars

\* a page session of uploads and resets, with the codec loader and the model
NextSession ==
  \/ NextLoader
  \/ ReUpload

SpecSession == Init /\ [][NextSession]_vars

\* the two hooks of a mounted, then possibly unmounted, component: enhanceFrame
\* calls with the handlers that answer them, and the codec loader up to the
\* start of a load
NextHooks ==
  \/ NextEnhance
  \/ Reset
  \/ DelayTimer
  \/ SabTimer
  \/ SabEnable

SpecHooks == Init /\ [][NextHooks]_vars

\* the model of useAIEnhancer in a mounted, then possibly unmounted, component
NextInitModel ==
  \/ NextLoader
  \/ CallInitModel

SpecInitModel == Init /\ [][NextInitModel]_vars

\* the 150 ms timers of initModel fire
FairInitModel == SpecInitModel /\ WF_vars(InitModelTick)

\* retryFFmpegLoad: window.location.reload() starts the page over
Reload ==
  /\ vp = "mounted"
  /\ RetryShown
  /\ vp' = "none"
  /\ processingStarted' = FALSE
  /\ enhancedVideoUrl' = Null
  /\ processingProgress' = 0
  /\ lwPc' = "idle"
  /\ enhancementScale' = DefaultScale
  /\ isExtractingFrames' = FALSE
  /\ totalFrames' = 0
  /\ processedFrames' = 0
  /\ hpPc' = "idle"
  /\ frames' = <<>>
  /\ hpI' = 0
  /\ hpScale' = 0
  /\ efCalls' = <<>>
  /\ sab' \in BOOLEAN
  /\ ldPc' = "none"
  /\ strat' = 0
  /\ loaded' = FALSE
  /\ loadSt' = [k \in Strategies |-> "notStarted"]
  /\ timerSt' = [k \in Strategies |-> "unset"]
  /\ raceWinner' = [k \in Strategies |-> "notStarted"]
  /\ ffmpegInst' = FALSE
  /\ isFFmpegLoaded' = FALSE
  /\ isFFmpegLoading' = FALSE
  /\ ffmpegError' = Null
  /\ ffmpegProgress' = 0
  /\ aiModel' = FALSE
  /\ isModelLoading' = FALSE
  /\ modelError' = Null
  /\ downloadProgress' = 0
  /\ initPc' = "idle"
  /\ initI' = 0
  /\ efPc' = "idle"
  /\ efArgs' = NoArgs
  /\ efResult' = NoResult
  /\ result' = NoBody
  /\ img' = "none"
  /\ net' = NoMsg
  /\ lastResp' = NoMsg
  /\ reqSinceResp' = 0
  /\ postCount' = 0
  /\ replicateCalls' = 0
  /\ adClient' = NoClientId
  /\ adEnabled' = FALSE
  /\ adMounted' = FALSE
  /\ adCleanup' = FALSE
  /\ adHead' = 0
  /\ adScript' = "none"
  /\ adAttached' = FALSE
  /\ adEvent' = "none"
  /\ upError' = Null
  /\ lastDrop' = <<>>
  /\ uploadCalls' = <<>>
  /\ ffmpegTerminated' = FALSE
  /\ loadStarts' = 0
  /\ initCalls' = 0
  /\ UNCHANGED <<envVars, apiVars, variantVars>>

\* a page session: one upload, the codec loader, the model, lightweight mode
NextUI ==
  \/ NextLoader
  \/ ClickLightweight
  \/ LightweightTimer
  \/ Reload

SpecUI == Init /\ [][NextUI]_vars

\* a page session with both processing modes: the codec loader, the model, the
\* settings, handleProcess with the enhanceFrame calls it makes, and the
\* handlers that answer them
NextProcess ==
  \/ Upload
  \/ InitModelTick
  \/ DelayTimer
  \/ SabTimer
  \/ SabEnable
  \/ BlobFetched
  \/ \E k \in Strategies : LoadResolves(k)
  \/ \E k \in Strategies : LoadRejects(k)
  \/ \E k \in Strategies : TimeoutFires(k)
  \/ BackoffTimer
  \/ ChangeScale
  \/ ClickLightweight
  \/ LightweightTimer
  \/ ClickProcess
  \/ ExtractResolves
  \/ ExtractRejects
  \/ ConvertResolves
  \/ ConvertRejects
  \/ FrameEnhanced
  \/ FrameThrows
  \/ ServeEnhance
  \/ ServeStatus
  \/ FetchFails
  \/ ReceivePost
  \/ PollTimer
  \/ ReceiveStatus
  \/ ImgOnload
  \/ ImgOnerror

SpecProcess == Init /\ [][NextProcess]_vars

\* the two handlers, invoked by any client
NextApi ==
  \/ InvokeEnhance
  \/ InvokeStatus

SpecApi == Init /\ [][NextApi]_vars

\* the proxy of the codec files, invoked by any client
NextProxy ==
  \/ ProxyInvoke
  \/ ProxyFetchResolves
  \/ ProxyFetchRejects
  \/ ProxyBodyResolves
  \/ ProxyBodyRejects

SpecProxy == Init /\ [][NextProxy]_vars

\* the loader of part_004 in a mounted component
NextCdn ==
  \/ CdnMount
  \/ CdnDelayTimer
  \/ CdnCoreJsFetched
  \/ CdnWasmFetched
  \/ CdnDownloadFails
  \/ \E k \in CdnOptions : CdnLoadResolves(k)
  \/ \E k \in CdnOptions : CdnLoadRejects(k)
  \/ \E k \in CdnOptions : CdnTimeoutFires(k)
  \/ CdnBackoffTimer

SpecCdn == Init /\ [][NextCdn]_vars

\* the loader of part_002 in a mounted component
NextCanvas ==
  \/ CvMount
  \/ CvDelayTimer
  \/ CvSabEnable
  \/ CvSabTimer
  \/ CvGlobalFires
  \/ CvProxyResolves
  \/ CvProxyRejects
  \/ CvCdnResolves
  \/ CvCdnRejects
  \/ CvCdnTimeout
  \/ CvExtractFrames
  \/ CvExtracted
  \/ CvExtractFallsBack
  \/ CvCanvasFails

SpecCanvas == Init /\ [][NextCanvas]_vars

\* calls of extractFramesWithCanvas, one at a time
NextCanvasExtract ==
  \/ CanvasCall
  \/ CanvasLoadedMetadata
  \/ CanvasVideoError
  \/ CanvasSeeked
  \/ CanvasBlob
  \/ CanvasReaderLoad

SpecCanvasExtract == Init /\ [][NextCanvasExtract]_vars

\* timers fire and the effect runs; no download and no load has to settle
FairCdn ==
  /\ SpecCdn
  /\ WF_vars(CdnMount)
  /\ WF_vars(CdnDelayTimer)
  /\ WF_vars(CdnBackoffTimer)
  /\ \A k \in CdnOptions : WF_vars(CdnTimeoutFires(k))

\* AdSenseScript through mounts and unmounts, and the script element it creates
NextAds ==
  \/ AdMount
  \/ AdUnmount
  \/ AdScriptError
  \/ AdScriptLoad

SpecAds == Init /\ [][NextAds]_vars

\* VideoUploader: drops until one is accepted
NextUploader ==
  \/ Drop

SpecUploader == Init /\ [][NextUploader]_vars

\* every timer fires; nothing is assumed of the CDNs
FairLoader ==
  /\ SpecLoader
  /\ WF_vars(DelayTimer \/ SabTimer \/ BackoffTimer)
  /\ \A k \in Strategies : WF_vars(TimeoutFires(k))

\* timers fire, continuations run, every request is answered or fails, and the
\* image element fires one of its two events
FairEnhance ==
  /\ SpecEnhance
  /\ WF_vars(InitModelTick)
  /\ WF_vars(ReceivePost \/ PollTimer \/ ReceiveStatus)
  /\ WF_vars(ServeEnhance \/ ServeStatus \/ FetchFails)
  /\ WF_vars(ImgOnload \/ ImgOnerror)

(***************************************************************************)
(* Properties of enhanceFrame and /api/enhance                             *)
(***************************************************************************)
Settled == {"resolved", "rejected"}

\* an enhanceFrame call made in production mode with the model initialised
ProdCall == ~DEV /\ efPc # "idle" /\ efResult.kind # "notInitialized"

\* the local fallback result for the input of the call
FallbackOfCall ==
  [kind |-> "fallback", data |-> enhancedFallbackProcessing(efArgs.image, efArgs.scale)]

SendsRequest(path) == net.type # "req" /\ net'.type = "req" /\ net'.path = path

Polling(resp) == resp.type = "resp" /\ resp.body.status \in {"starting", "processing"}

\* C1, on the wire: a POST to /api/enhance is sent only by the step that starts
\* a call, and a status request is sent only when the response received last
\* reports 'starting' or 'processing', for the id of that response, once
C1_RequestsOnTheWire ==
  /\ (SendsRequest("/api/enhance") => efPc \in {"idle"} \cup Settled /\ efPc' = "awaitPost")
  /\ (SendsRequest("/api/status") =>
        Polling(lastResp) /\ net'.id = lastResp.body.id /\ reqSinceResp = 0)

\* C1: a production call with the model initialised sends exactly one POST to
\* /api/enhance; it sends a status request, for the id of the most recent
\* response, if and only if that response reports 'starting' or 'processing',
\* and none once a response with another status has been received
C1_PollUntilTerminal ==
  /\ [](ProdCall => postCount = 1 /\ reqSinceResp \in {0, 1})
  /\ [](ProdCall /\ efPc \in Settled /\ Polling(lastResp) => reqSinceResp = 1)
  /\ [](ProdCall /\ efPc \in {"sleep", "awaitStatus"} => Polling(lastResp))
  /\ [][C1_RequestsOnTheWire]_vars

\* C1 witness: a status request for the id of a 'processing' response is in
\* flight, that response itself being the answer to an earlier status request
C1_Witness ==
  /\ ProdCall /\ efPc = "awaitStatus" /\ net.type = "req"
  /\ lastResp.body.status = "processing" /\ lastResp.body.id = "p2"
  /\ net.id = "p2" /\ replicateCalls = 2

\* a response after which the call does not go on: non-ok, 'failed', or done
\* with a status other than 'succeeded' or without an output
FailureResponse(resp) ==
  /\ resp.type = "resp"
  /\ \/ ~resp.ok
     \/ resp.body.status = "failed"
     \/ /\ resp.body.status \notin {"starting", "processing"}
        /\ (resp.body.status # "succeeded" \/ resp.body.output = "none")

\* C2: in a production call, after a non-ok response to the POST or to a status
\* request, a 'failed' status, or an end of polling that is not 'succeeded' with
\* an output, the call has resolved with the local fallback of its own input and
\* no request of it is in flight
C2_FailureFallsBack ==
  ProdCall /\ FailureResponse(lastResp) =>
    efPc = "resolved" /\ efResult = FallbackOfCall /\ net = NoMsg

\* C2 witness: a status check answered non-ok, after a 'processing' response,
\* ended the call with the fallback of a 2-pixel frame at scale 3
C2_Witness ==
  /\ ProdCall /\ efPc = "resolved" /\ efResult.kind = "fallback"
  /\ lastResp.type = "resp" /\ ~lastResp.ok /\ result.status = "processing"
  /\ efArgs.scale = 3 /\ efResult.data.width = 6

\* C3: in a production call whose prediction succeeded with an output, a
\* failure to load the output image ends the call resolved with the local
\* fallback of its own input
C3_ImageErrorFallsBack ==
  ProdCall /\ img = "error" => efPc = "resolved" /\ efResult = FallbackOfCall

\* a production call with the model initialised that has not settled
InFlight == ProdCall /\ efPc \notin Settled

\* C4 as claimed: every enhanceFrame call made with the model initialised
\* eventually resolves or rejects, whatever the remote service does
C4_CallSettles == InFlight ~> (efPc \in Settled)

\* C4 as amended: when every request is answered or fails and the image element
\* fires an event, a call eventually resolves or rejects unless the prediction
\* keeps reporting 'starting' or 'processing' for ever
C4_SettlesUnlessPollingForever == (<>[]~Polling(lastResp)) => []<>~InFlight

\* C4 witness: a call waits for a status response after two polls
C4_Witness ==
  /\ InFlight /\ efPc = "awaitStatus" /\ net.type = "resp"
  /\ result.status = "processing" /\ lastResp.body.status = "processing"

\* C5: without an API token no request reaches Replicate, every response to a
\* production call is the 500 'API token not configured', and the call that
\* received it has resolved with the local fallback of its own input
C5_NoTokenFallsBack ==
  ~apiToken =>
    /\ replicateCalls = 0
    /\ (net.type = "resp" =>
          net.code = 500 /\ net.body.error = "API token not configured")
    /\ (ProdCall /\ lastResp.type = "resp" =>
          /\ lastResp.code = 500 /\ lastResp.body.error = "API token not configured"
          /\ efPc = "resolved" /\ efResult = FallbackOfCall)

\* C5 witness: a call resolved with the fallback after the 500 of /api/enhance
C5_Witness ==
  /\ ~apiToken /\ ProdCall /\ efPc = "resolved" /\ lastResp.type = "resp"
  /\ lastResp.code = 500 /\ efResult.kind = "fallback" /\ efResult.data.px = 110

(***************************************************************************)
(* Properties of the codec loader                                          *)
(***************************************************************************)
Started(k) == raceWinner[k] # "notStarted"

\* C6: a strategy is started only after every earlier one, in list order, was
\* started and failed, its load rejected or its timeout fired first; no
\* strategy is started after one has succeeded
C6_StrategiesInOrder ==
  /\ \A k \in 1..(NumStrategies - 1) :
       Started(k + 1) =>
         /\ raceWinner[k] \in {"reject", "timeout"}
         /\ (loadSt[k] = "rejected" \/ timerSt[k] = "fired")
  /\ \A k \in Strategies :
       raceWinner[k] = "load" => \A j \in Strategies : j > k => ~Started(j)
  /\ \A k \in Strategies : Started(k) => k <= strat

\* C6 witness: blob-conversion was started after unpkg-primary timed out and
\* jsdelivr-fallback was rejected
C6_Witness ==
  /\ Started(NumStrategies) /\ raceWinner[1] = "timeout" /\ raceWinner[2] = "reject"

AllFailed == \A k \in Strategies : raceWinner[k] \in {"reject", "timeout"}

\* C7: isLoaded is true only if the load of some strategy resolved before that
\* strategy's timeout fired; once true it stays true; when every strategy was
\* rejected or timed out isLoaded is false and load ends with the error
\* 'FFmpeg loading failed'
C7_LoadedOnlyByWinningLoad ==
  /\ [](isFFmpegLoaded =>
          \E k \in Strategies : raceWinner[k] = "load" /\ loadSt[k] = "resolved")
  /\ [][isFFmpegLoaded => isFFmpegLoaded']_vars
  /\ [](AllFailed => ~isFFmpegLoaded)
  /\ [](AllFailed /\ ldPc = "done" => ffmpegError = "FFmpeg loading failed")

\* C7 witness: blob-conversion loaded after the first two strategies timed out
\* with their loads still outstanding, and its own timer fired afterwards
C7_Witness ==
  /\ isFFmpegLoaded /\ raceWinner[NumStrategies] = "load"
  /\ timerSt[NumStrategies] = "fired"
  /\ loadSt[1] = "pending" /\ loadSt[2] = "pending"

\* load has started: its delay elapsed
LoaderStarted == ldPc \in {"sabWait", "race", "backoff", "done"}

\* C8: once load has started it ends, whatever the CDNs do, and from its end
\* on isLoading is false and exactly one of isLoaded and error # null holds
C8_LoaderFinishes ==
  /\ LoaderStarted ~> (ldPc = "done")
  /\ [][ldPc = "done" => ldPc' = "done"]_vars
  /\ [](ldPc = "done" =>
          ~isFFmpegLoading /\ (isFFmpegLoaded <=> ffmpegError = Null))

\* C8 witness: load ended with the error while no download ever completed
C8_Witness ==
  /\ ldPc = "done" /\ ffmpegError = "FFmpeg loading failed" /\ ~isFFmpegLoading
  /\ loadSt[1] = "pending" /\ loadSt[2] = "pending" /\ loadSt[NumStrategies] = "blobCore"

\* C9 as claimed: at most one load call on the codec instance is in flight
C9_OneLoadInFlight == Cardinality({k \in Strategies : loadSt[k] = "pending"}) <= 1

\* a load that settles after its race was settled by something else
LateSettlement(k) ==
  Outstanding(loadSt[k]) /\ ~Outstanding(loadSt'[k]) /\ raceWinner[k] # "pending"

\* C9 as amended: load awaits one race at a time; a load that is outstanding
\* without being awaited is one whose timeout fired, and when it settles later
\* the state of the hook and the position of load do not change
C9_OneAwaitedLoad ==
  /\ [](Cardinality({k \in Strategies : raceWinner[k] = "pending"}) <= 1)
  /\ [](\A k \in Strategies :
          Outstanding(loadSt[k]) /\ raceWinner[k] # "pending" =>
            raceWinner[k] = "timeout" /\ timerSt[k] = "fired")
  /\ [][\A k \in Strategies :
          LateSettlement(k) => UNCHANGED <<ffmpegVars, ldPc, strat, loaded>>]_vars

\* C9 witness: the load of unpkg-primary resolved after its timeout, while the
\* load of jsdelivr-fallback was in flight, and isLoaded stayed false
C9_Witness ==
  /\ raceWinner[1] = "timeout" /\ loadSt[1] = "resolved"
  /\ loadSt[2] = "pending" /\ raceWinner[2] = "pending" /\ ~isFFmpegLoaded

(***************************************************************************)
(* Properties of VideoProcessor                                            *)
(***************************************************************************)
LightweightSteps == {<<0, 25>>, <<25, 50>>, <<50, 75>>, <<75, 100>>}

\* C10, the run: progress goes 25, 50, 75, 100 and the enhanced video URL is
\* set, to the URL of the uploaded video, by the step that sets 100
C10_LightweightRun ==
  /\ (processingProgress' # processingProgress /\ vp' = "mounted" =>
        <<processingProgress, processingProgress'>> \in LightweightSteps)
  /\ (enhancedVideoUrl' # enhancedVideoUrl /\ vp' = "mounted" =>
        /\ processingProgress = 75 /\ processingProgress' = 100
        /\ enhancedVideoUrl' = VideoUrl)
  /\ (processingProgress # 100 /\ processingProgress' = 100 => enhancedVideoUrl' = VideoUrl)

\* C10: whenever codec loading has ended with an error, the model is ready and
\* processing has not been started, a lightweight button is enabled; a started
\* run sets progress to 25, 50, 75 and 100 in order and then the video URL
C10_LightweightWithoutFFmpeg ==
  /\ [](vp = "mounted" /\ ffmpegError # Null /\ aiModel /\ ~processingStarted =>
          LightweightEnabled /\ ENABLED ClickLightweight)
  /\ [](lwPc = "waiting" => processingProgress \in {25, 50, 75} /\ enhancedVideoUrl = Null)
  /\ [](lwPc = "done" => processingProgress = 100 /\ enhancedVideoUrl = VideoUrl)
  /\ [][C10_LightweightRun]_vars

\* C10 witness: a lightweight run finished after the codec loader gave up
C10_Witness ==
  /\ vp = "mounted" /\ ffmpegError = "FFmpeg loading failed" /\ ~isFFmpegLoaded
  /\ lwPc = "done" /\ processingProgress = 100 /\ enhancedVideoUrl = VideoUrl

(***************************************************************************)
(* Properties of the handlers                                              *)
(***************************************************************************)
Invoked == apiCall.path # "none"

\* the method the handler of a path accepts
MethodOf(path) == IF path = "/api/status" THEN "GET" ELSE "POST"

\* the number of the first rule that matches the invocation
FirstRule(c) ==
  IF c.method = "OPTIONS" THEN 1
  ELSE IF c.method # MethodOf(c.path) THEN 2
  ELSE IF ~c.hasArg THEN 3
  ELSE IF ~apiToken THEN 4
  ELSE IF c.replicate.kind # "ok" THEN 5
  ELSE 6

AdSenseConfigured ==
  adEnabled /\ ~DEV /\ adClient.prefix = "ca-pub-" /\ adClient.length >= MinClientIdLength

\* C12 as claimed: there is never more than one AdSense script element, and
\* after a mount with a client identifier configured there is exactly one
C12_OneScriptWhenClientSet ==
  /\ adHead <= 1
  /\ (adEvent = "mount" /\ adClient # NoClientId => adHead = 1)

\* C12 as amended: there is never more than one AdSense script element; after
\* a mount with AdSense enabled, outside development mode and with a client
\* identifier that starts with 'ca-pub-' and has at least 15 characters, there
\* is exactly one, the one the mount created; with any other configuration
\* there is never one
C12_OneScriptWhenEnabled ==
  /\ adHead <= 1
  /\ (adEvent = "mount" /\ AdSenseConfigured =>
        adHead = 1 /\ adAttached /\ adCleanup)
  /\ (~AdSenseConfigured => adHead = 0)
  /\ (adHead = 1 <=> adAttached)

\* C12 witness: with AdSense configured, a mount has just created the one
\* script element, which is loading
C12_Witness ==
  /\ AdSenseConfigured /\ adEvent = "mount" /\ adMounted
  /\ adHead = 1 /\ adScript = "loading"

(***************************************************************************)
(* Properties of VideoUploader                                             *)
(***************************************************************************)
\* onDrop invoked onVideoUpload with the first file of the last drop
Invokes == vp = "mounted" /\ uploadCalls = <<lastDrop[1]>>

IsVideo(file) == Len(file.type) >= 2 /\ file.type[1] = "video"

OfferedScales == {2, 3, 4}

C16_FramesOneAtATime ==
  /\ [][efCalls' # efCalls =>
          /\ efCalls' = Append(efCalls, Len(efCalls) + 1)
          /\ (efCalls # <<>> => efPc = "resolved")
          /\ processedFrames = Len(efCalls)]_vars
  /\ [][processedFrames' # processedFrames =>
          /\ processedFrames' = processedFrames + 1
          /\ processedFrames' = Len(efCalls)
          /\ efPc = "resolved"]_vars
  /\ [](hpPc \notin {"idle", "extracting"} =>
          processedFrames >= 0 /\ processedFrames <= totalFrames)
  /\ [](efCalls = [k \in 1..Len(efCalls) |-> k] /\ Len(efCalls) <= totalFrames)

\* C16 witness: the second and last frame is being enhanced, the first is counted
C16_Witness ==
  /\ hpPc = "enhancing" /\ efCalls = <<1, 2>> /\ efPc = "sleep"
  /\ processedFrames = 1 /\ totalFrames = 2 /\ processingProgress = 50

\* C17: in a full-mode run the enhanced video URL is set only when every
\* extracted frame has been enhanced and counted, and it is set to the URL of
\* the uploaded video
C17_UrlAfterAllFrames ==
  /\ [][hpPc # "idle" /\ enhancedVideoUrl = Null /\ enhancedVideoUrl' # Null =>
          /\ processedFrames' = totalFrames'
          /\ Len(efCalls) = totalFrames'
          /\ (totalFrames' > 0 => efPc = "resolved")
          /\ enhancedVideoUrl' = VideoUrl
          /\ hpPc' = "done"]_vars
  /\ [](hpPc # "idle" /\ enhancedVideoUrl # Null =>
          hpPc = "done" /\ processedFrames = totalFrames /\ enhancedVideoUrl = VideoUrl)

\* C17 witness: a run of two frames ended with the URL set, its last frame
\* enhanced by the remote service
C17_Witness ==
  /\ hpPc = "done" /\ enhancedVideoUrl = VideoUrl
  /\ totalFrames = 2 /\ processedFrames = 2 /\ efResult.kind = "remote"

\* C18 as claimed: a run in which extractFrames, a frame conversion or a frame
\* enhancement threw has ended with an enhanced video URL set
C18_FailedRunSetsUrl == hpPc = "caught" => enhancedVideoUrl # Null

\* C18 as amended: when extractFrames, a frame conversion or a frame
\* enhancement throws, the run ends in the catch block: isExtractingFrames is
\* reset, no enhanced video URL is set then or later, processingStarted stays
\* true and no processing button is enabled
C18_FailedRunEndsWithoutUrl ==
  /\ [](hpPc = "caught" =>
          /\ enhancedVideoUrl = Null /\ processingStarted /\ ~isExtractingFrames
          /\ ~ProcessEnabled /\ ~LightweightEnabled)
  /\ [][hpPc = "caught" => hpPc' = "caught" /\ UNCHANGED <<uiVars, runVars>>]_vars
  /\ [][hpPc = "enhancing" /\ efPc = "rejected" /\ hpPc' # hpPc => hpPc' = "caught"]_vars

\* C18 witness: the enhancement of the second frame threw, its output image
\* having failed to load, and the run ended without a URL
C18_Witness ==
  /\ hpPc = "caught" /\ efPc = "rejected" /\ img = "error"
  /\ processedFrames = 1 /\ totalFrames = 2 /\ enhancedVideoUrl = Null

(***************************************************************************)
(* /api/proxy-ffmpeg: what is fetched and what is answered                 *)
(***************************************************************************)
\* the URL of the file in @ffmpeg/core 0.12.4 on unpkg
CoreFileUrl(file) ==
  IF file = "core.js"
    THEN "https://unpkg.com/@ffmpeg/core@0.12.4/dist/umd/ffmpeg-core.js"
    ELSE "https://unpkg.com/@ffmpeg/core@0.12.4/dist/umd/ffmpeg-core.wasm"

\* the invocation named exactly one of the two files
AskedCoreFile ==
  /\ proxyCall.query \in {<<"core.js">>, <<"core.wasm">>}
  /\ proxyCall.pc # "idle"

UpstreamFailed == proxyCall.upstream \in {"notok", "neterr", "bodyerr"}

\* C15: /api/proxy-ffmpeg sends a request upstream only when file is exactly
\* 'core.js' or 'core.wasm', and then one request, to the URL of that file in
\* @ffmpeg/core 0.12.4 on unpkg; any other or missing value is answered 400
\* with no request sent; a failure upstream is answered 500.
C15_ProxyOnlyCoreFiles ==
  /\ proxyCall.requests # <<>> =>
       AskedCoreFile /\ proxyCall.requests = <<CoreFileUrl(proxyCall.query[1])>>
  /\ (proxyCall.pc # "idle" /\ ~AskedCoreFile) =>
       /\ proxyCall.requests = <<>>
       /\ Len(proxyCall.sent) = 1
       /\ proxyCall.sent[1].code = 400
  /\ UpstreamFailed =>
       /\ Len(proxyCall.sent) = 1
       /\ proxyCall.sent[1].code = 500

\* core.wasm was asked for, fetched from its URL, and unpkg answered with an
\* error: the handler answered 500
C15_Witness ==
  /\ proxyCall.query = <<"core.wasm">>
  /\ proxyCall.requests = <<CoreFileUrl("core.wasm")>>
  /\ proxyCall.upstream = "notok"
  /\ proxyCall.sent = <<ProxyReply(500, "application/json")>>

(***************************************************************************)
(* useFFmpeg of part_004: the 30 s timer of a CDN attempt                  *)
(***************************************************************************)
\* load() is inside the attempt at CDN k: downloading its two files or
\* awaiting the race
CdnAttempting(k) == cdnI + 1 = k /\ cdnPc \in {"coreJs", "wasm", "race"}

\* the attempt at CDN k was left: load() is in the delay before the next
\* CDN, at a later CDN, or has returned
CdnAttemptOver(k) == cdnI + 1 # k \/ cdnPc \in {"backoff", "done"}

\* C19: every attempt at a CDN, the download of its two files into blob URLs
\* included, comes to an end, so that the loader moves on to the next CDN or
\* finishes, even if a download or a load never completes.
C19_EveryAttemptEnds == \A k \in CdnOptions : CdnAttempting(k) ~> CdnAttemptOver(k)

(***************************************************************************)
(* useFFmpeg of part_002: after the 60 s timeout                           *)
(***************************************************************************)
\* C20: once the 60 s global timeout has fired and switched compatibilityMode
\* to 'canvas', the mode is 'canvas' and isLoaded is false from then on, even
\* if the pending load through the proxy or from the CDN completes.
C20_CanvasStaysAfterTimeout ==
  cvGlobal = "fired" => compatibilityMode = "canvas" /\ ~cvIsLoaded

(***************************************************************************)
(* useFFmpeg: the cleanup of its effect                                    *)
(***************************************************************************)
\* VideoProcessor is unmounted by this step
Unmounting == vp = "mounted" /\ vp' = "unmounted"

\* C21: when the component that uses useFFmpeg is unmounted before the start
\* delay has elapsed, the load is never started and no state of the hook
\* changes, then or later; when it is unmounted with a codec instance created,
\* that instance is terminated.
C21_CleanupCancelsOrTerminates ==
  /\ [][Unmounting /\ ldPc = "delay" => ldPc' = "cancelled" /\ UNCHANGED ffmpegVars]_vars
  /\ [][ldPc = "cancelled" =>
          UNCHANGED <<ldPc, strat, loaded, loadSt, timerSt, raceWinner, ffmpegVars,
                      loadStarts>>]_vars
  /\ [][Unmounting /\ ffmpegInst => ffmpegTerminated']_vars

(***************************************************************************)
(* useFFmpeg across uploads and resets                                     *)
(***************************************************************************)
\* C22: across the uploads and resets of one page session, the codec load is
\* started at most once.
C22_LoadStartedAtMostOnce == loadStarts <= 1

(***************************************************************************)
(* useAIEnhancer: initModel                                                *)
(***************************************************************************)
ModelReady ==
  initPc = "done" /\ aiModel /\ downloadProgress = 100 /\ ~isModelLoading

\* C23: every initModel call made while model is false ends with model true,
\* downloadProgress 100 and isLoading false; downloadProgress never goes down
\* during the call; the error of the hook is null in every state; a call made
\* while model is true changes no state of the hook.
C23_InitModelCannotFail ==
  /\ (initPc = "wait") ~> ModelReady
  /\ [][initPc = "wait" => downloadProgress' >= downloadProgress]_vars
  /\ [](modelError = Null)
  /\ [][initCalls' # initCalls /\ aiModel => UNCHANGED enhancerVars]_vars

\* C23 witness: the call of the mount has made the model ready, and a call
\* made after it has returned
C23_Witness == ModelReady /\ initCalls = 1 /\ vp = "mounted"

(***************************************************************************)
(* Development mode                                                        *)
(***************************************************************************)
DevMessage == "Development mode - FFmpeg disabled for faster loading"

\* C24: in development mode the codec loader creates no instance and starts
\* no load, isLoaded stays false and the error is the development-mode
\* message; no request is sent to /api/enhance or /api/status, and an
\* enhanceFrame call with the model initialised has resolved with the local
\* fallback of its input.
C24_DevSendsNothing ==
  DEV =>
    /\ ~ffmpegInst /\ loadStarts = 0 /\ ~isFFmpegLoaded
    /\ \A k \in Strategies : loadSt[k] = "notStarted" /\ timerSt[k] = "unset"
    /\ vp # "none" => ffmpegError = DevMessage /\ ~isFFmpegLoading /\ ldPc = "done"
    /\ net = NoMsg /\ postCount = 0 /\ replicateCalls = 0
    /\ (efPc # "idle" /\ efResult.kind # "notInitialized") =>
         efPc = "resolved" /\ efResult = FallbackOfCall

\* C24 witness: in development mode, with the model ready, a call for a
\* 2-pixel frame at scale 4 has resolved
C24_Witness ==
  /\ DEV /\ aiModel /\ efPc = "resolved"
  /\ efArgs.image.width = 2 /\ efArgs.scale = 4
  /\ efResult.kind = "fallback" /\ efResult.data.width = 8

(***************************************************************************)
(* extractFramesWithCanvas: one frame per second                           *)
(***************************************************************************)
\* the seconds 0, 1, ..., n - 1
FirstSeconds(n) == [k \in 1..n |-> k - 1]

\* C25: extractFramesWithCanvas seeks to the times 0, 1, 2, ... in this order,
\* to the next one only when the capture at the one before has ended; it
\* resolves at the first time that is not less than the duration; the frames
\* it returns are numbered 1, 2, ... in the order of their capture, a capture
\* without a blob leaving no gap.
C25_OneFramePerSecond ==
  /\ [](cxSeeks = FirstSeconds(Len(cxSeeks)))
  /\ [][Len(cxSeeks') > Len(cxSeeks) =>
          /\ cxPc \in {"loading", "toBlob", "reading"}
          /\ cxSeeks' = Append(cxSeeks, Len(cxSeeks))]_vars
  /\ [](cxPc = "resolved" =>
          /\ 2 * cxTime >= cxDuration
          /\ \A t \in 0..(cxTime - 1) : 2 * t < cxDuration
          /\ Len(cxSeeks) = cxTime)
  /\ [](\A i \in 1..Len(cxFrames) :
          /\ cxFrames[i].number = i
          /\ i > 1 => cxFrames[i].time > cxFrames[i - 1].time)

\* C25 witness: a video of 2.5 s was sampled at 0, 1 and 2 s, the capture at
\* 1 s gave no blob, and the call resolved with frames 1 and 2
C25_Witness ==
  /\ cxPc = "resolved" /\ cxDuration = 5 /\ cxSeeks = <<0, 1, 2>>
  /\ cxFrames = <<[number |-> 1, time |-> 0], [number |-> 2, time |-> 2]>>

====
